---- MODULE Spec2Model ----
(***************************************************************************)
(* The multi-threaded stock exchange web-server of Homework 8/9            *)
(* (zarembmj_homework9.cpp; raodm_homework8.cpp and zarembmj_homework8.cpp *)
(* are variants of the same design).                                       *)
(*                                                                         *)
(* One accept loop (runServer) admits connections under the thread limit   *)
(* maxThreads and spawns one detached thread (clientThread) per            *)
(* connection.  Each thread runs one transaction (processTrans) against    *)
(* the shared sm::stockMap, releases its admission slot and writes its     *)
(* response.  A step of the model is one statement of the code that reads  *)
(* or writes shared state.                                                 *)
(***************************************************************************)
EXTENDS Integers, FiniteSets, Sequences, TLC

\* ------------------------------------------------------------------------
\* Bounds of the model
\* ------------------------------------------------------------------------

\* Number of connections the clients open during a run.
MaxConn == 3

\* The thread limit given on the command line ranges over 1..MaxCeiling.
MaxCeiling == 2

\* The largest number written in decimal in a request or a response header.
MaxNumeral == 130

\* The largest number of files named on the word counter's command line.
MaxArgs == 3

\* ------------------------------------------------------------------------
\* unsigned int (Stock::balance, the trade quantities): 32 bits, kept as two
\* 16-bit limbs <<high, low>> so that wrap-around is computed exactly.
\* ------------------------------------------------------------------------

Limb == 65536

U32Of(n) == << (n \div Limb) % Limb, n % Limb >>

U32Add(a, b) ==
    LET lo == a[2] + b[2]
    IN  << (a[1] + b[1] + (lo \div Limb)) % Limb, lo % Limb >>

U32Sub(a, b) ==
    IF a[2] >= b[2]
    THEN << (a[1] + Limb - b[1]) % Limb, a[2] - b[2] >>
    ELSE << (a[1] + Limb - b[1] - 1) % Limb, a[2] + Limb - b[2] >>

U32Geq(a, b) == a[1] > b[1] \/ (a[1] = b[1] /\ a[2] >= b[2])

\* ------------------------------------------------------------------------
\* Requests and responses
\* ------------------------------------------------------------------------

Conns == 1..MaxConn

\* The parsed request (trans, stock, amount) handed to processTrans.
Request(t, s, n) == [trans |-> t, stock |-> s, amount |-> U32Of(n)]

NoRequest == Request("", "", 0)

\* The result text of processTrans: its fixed wording, the stock it names
\* and the number it prints.
Msg(t, s, u) == [text |-> t, stock |-> s, num |-> u]

NoResult == Msg("", "", U32Of(0))

\* u divided by ten: the quotient and the remainder (a decimal digit).
DivTen(u) ==
    LET t == (u[1] % 10) * Limb + u[2]
    IN  [quot |-> << u[1] \div 10, t \div 10 >>, rem |-> t % 10]

\* std::to_string / operator<< of an unsigned int: its decimal digits.
RECURSIVE Dec(_)
Dec(u) ==
    IF u[1] = 0 /\ u[2] < 10 THEN ToString(u[2])
    ELSE Dec(DivTen(u).quot) \o ToString(DivTen(u).rem)

\* The string that processTrans returns for a result.
Render(m) ==
    CASE m.text = "created" ->
           "Stock " \o m.stock \o " created with balance = " \o Dec(m.num)
      [] m.text = "already exists" -> "Stock " \o m.stock \o " already exists"
      [] m.text = "balance updated" -> "Stock " \o m.stock \o "'s balance updated"
      [] m.text = "Balance for stock" ->
           "Balance for stock " \o m.stock \o " = " \o Dec(m.num)
      [] OTHER -> m.text

\* The words of a request as clientThread reads them: the path of the GET
\* line after url_decode, '&' and '=' replaced by blanks, split at white
\* space.  Line is a request with its three key=value pairs.
Line(t, s, n) == << "/trans", t, "stock", s, "amount", n >>

\* operator>> into a std::string: the i-th word, empty when there is none.
Word(w, i) == IF Len(w) >= i THEN w[i] ELSE ""

\* operator>> into 'unsigned int amount = 0': the number a decimal numeral
\* denotes, 0 when the word is missing or is not a number.
ParseUnsigned(t) ==
    IF \E n \in 0..MaxNumeral : ToString(n) = t
    THEN U32Of(CHOOSE n \in 0..MaxNumeral : ToString(n) = t)
    ELSE U32Of(0)

\* Faulty variant of the parsing below: the keys are not skipped.
ParseRequest_Shifted(w) ==
    [trans |-> Word(w, 1), stock |-> Word(w, 3),
     amount |-> ParseUnsigned(Word(w, 5))]

\* Faulty variant of the parsing below: a value is found by the name of its
\* key.
ParseRequest_ByKey(w) ==
    LET ValueOf(k) ==
          IF \E i \in 1..(Len(w) - 1) : w[i] = k
          THEN w[(CHOOSE i \in 1..(Len(w) - 1) : w[i] = k) + 1]
          ELSE ""
    IN  [trans |-> ValueOf("/trans"), stock |-> ValueOf("stock"),
         amount |-> ParseUnsigned(ValueOf("amount"))]

\* >> dummy >> trans >> dummy >> stock >> dummy >> amount
ParseRequest(w) ==
    [trans |-> Word(w, 2), stock |-> Word(w, 4),
     amount |-> ParseUnsigned(Word(w, 6))]

\* The requests the clients of the server send.
WireRequests ==
    { Line("create", "X", "10"), Line("create", "X", "5"),
      Line("buy", "X", "10"), Line("sell", "X", "5"),
      << "/trans", "status", "stock", "X" >>, << "/trans", "reset" >> }

\* Faulty variant of the response below: the Content-Length also counts a
\* line end that is not sent.
SendResponse_Miscount(output) ==
    [status |-> "HTTP/1.1 200 OK",
     headers |-> << << "Server", "StockServer" >>,
                    << "Content-Length", ToString(Len(output) + 2) >>,
                    << "Connection", "Close" >>,
                    << "Content-Type", "text/plain" >> >>,
     body |-> output]

\* sendResponse: the status line, the headers and the body written to the
\* client.
SendResponse(output) ==
    [status |-> "HTTP/1.1 200 OK",
     headers |-> << << "Server", "StockServer" >>,
                    << "Content-Length", ToString(Len(output)) >>,
                    << "Connection", "Close" >>,
                    << "Content-Type", "text/plain" >> >>,
     body |-> output]

\* ------------------------------------------------------------------------
\* State
\* ------------------------------------------------------------------------

VARIABLES
    maxThreads,   \* runServer's maxThreads argument
    threadCount,  \* sm::threadCount
    accPc,        \* position of the accept loop in runServer
    accepted,     \* number of connections accepted so far; the accept loop's
                  \* current client is connection number 'accepted'
    hpc,          \* position of each connection's clientThread
    wire,         \* the words of the request each connection sent
    req,          \* the request each connection carries
    result,       \* the result of processTrans in each clientThread
    dangling,     \* the thread's Stock& refers to an entry that clear() destroyed
    stockMap,     \* sm::stockMap: key -> Stock (name, balance, mutex, condVar)
    sent,         \* the responses written to each connection
    aborted       \* the process was terminated (uncaught exception, assert)

serverVars == << maxThreads, threadCount, accPc, accepted, hpc, wire, req, result,
           dangling, stockMap, sent, aborted >>

\* The custom shell (zarembmj_hw5.cpp).
VARIABLES
    stack,        \* the active calls of processCmds, innermost last
    child,        \* the child processes in the order they were started
    console       \* what the shell has written to std::cout

shellVars == << stack, child, console >>

\* The word counter (zarembmj_homework7.cpp).
VARIABLES
    argv,         \* main's command-line arguments, argv[0] included
    stats,        \* main's vector of results, one slot per argument
    thrList,      \* the threads main has created
    mainPc,       \* main's position
    cout          \* the lines main has printed

countVars == << argv, stats, thrList, mainPc, cout >>

vars == << serverVars, shellVars, countVars >>

\* The shell has not been started.
ShellOff == stack = << >> /\ child = << >> /\ console = << >>

\* The word counter has not been started.
CountOff ==
    /\ argv = << >> /\ stats = << >> /\ thrList = << >>
    /\ mainPc = "off" /\ cout = << >>

\* A value-initialised Stock, as unordered_map::operator[] inserts it:
\* empty name, balance 0, mutex unlocked (owner 0), nobody waiting.
NewStock == [name |-> "", balance |-> U32Of(0), mutex |-> 0, condVar |-> {}]

EmptyMap == [n \in {} |-> NewStock]

Has(m, s) == s \in DOMAIN m

\* m[s], inserting a value-initialised entry when the key is absent.
Subscript(m, s) ==
    IF Has(m, s) THEN m
    ELSE [n \in DOMAIN m \cup {s} |-> IF n = s THEN NewStock ELSE m[n]]

\* Positions at which a clientThread holds a reference to a Stock entry.
RefPcs == { "u_lock", "u_add", "u_notify", "u_wait", "parked", "woken",
            "u_assert", "u_sub", "s_lock", "s_read" }

Init ==
    /\ maxThreads \in 1..MaxCeiling
    /\ threadCount = 0
    /\ accPc = "accept"
    /\ accepted = 0
    /\ hpc = [h \in Conns |-> "idle"]
    /\ wire = [h \in Conns |-> << >>]
    /\ req = [h \in Conns |-> NoRequest]
    /\ result = [h \in Conns |-> NoResult]
    /\ dangling = [h \in Conns |-> FALSE]
    /\ stockMap = EmptyMap
    /\ sent = [h \in Conns |-> << >>]
    /\ aborted = FALSE
    /\ ShellOff /\ CountOff

\* ------------------------------------------------------------------------
\* runServer: the accept loop
\* ------------------------------------------------------------------------

\* Faulty variant of the accept below: a second acceptor takes the next
\* connection while the loop waits for a slot.
AccAccept_WhileWaiting ==
    /\ ~aborted
    /\ accPc \in {"accept", "block", "parked"}
    /\ accepted < MaxConn
    /\ \E w \in WireRequests :
         /\ wire' = [wire EXCEPT ![accepted + 1] = w]
         /\ req' = [req EXCEPT ![accepted + 1] = ParseRequest(w)]
    /\ accepted' = accepted + 1
    /\ accPc' = "check"
    /\ UNCHANGED << sent, maxThreads, threadCount, hpc, result, dangling,
                    stockMap, aborted,
                    shellVars, countVars >>

\* server.accept(): a client connects and its request is on the wire.
AccAccept ==
    /\ ~aborted
    /\ accPc = "accept"
    /\ accepted < MaxConn
    /\ \E w \in WireRequests :
         /\ wire' = [wire EXCEPT ![accepted + 1] = w]
         /\ req' = [req EXCEPT ![accepted + 1] = ParseRequest(w)]
    /\ accepted' = accepted + 1
    /\ accPc' = "check"
    /\ UNCHANGED << sent, maxThreads, threadCount, hpc, result, dangling,
                    stockMap, aborted,
                    shellVars, countVars >>

\* Faulty variants of the predicate below (off by one either way).
WaitPredicate_OffByOne == threadCount <= maxThreads

WaitPredicate_Strict == threadCount + 1 < maxThreads

\* The predicate of threadStatus.wait(lock, ...): threadCount < maxThreads.
WaitPredicate == threadCount < maxThreads

\* wait() evaluates the predicate; when it is false the loop goes on to
\* block on the condition variable.  The mutex is local to the iteration, so
\* nothing orders this evaluation against a clientThread's decrement/notify.
AccCheck ==
    /\ ~aborted
    /\ accPc = "check"
    /\ accPc' = IF WaitPredicate THEN "incr" ELSE "block"
    /\ UNCHANGED << sent, maxThreads, threadCount, accepted, hpc, req, wire,
                    result, dangling, stockMap, aborted,
                    shellVars, countVars >>

\* The loop blocks on sm::threadStatus.
AccPark ==
    /\ ~aborted
    /\ accPc = "block"
    /\ accPc' = "parked"
    /\ UNCHANGED << sent, maxThreads, threadCount, accepted, hpc, req, wire,
                    result, dangling, stockMap, aborted,
                    shellVars, countVars >>

\* A condition variable may wake up spuriously; the predicate is rechecked.
AccSpurious ==
    /\ ~aborted
    /\ accPc = "parked"
    /\ accPc' = "check"
    /\ UNCHANGED << sent, maxThreads, threadCount, accepted, hpc, req, wire,
                    result, dangling, stockMap, aborted,
                    shellVars, countVars >>

\* Faulty variant of the admission below: the thread is started and the
\* counter is left as it was.
AccAdmit_Uncounted ==
    /\ ~aborted
    /\ accPc = "incr"
    /\ hpc' = [hpc EXCEPT ![accepted] = "start"]
    /\ accPc' = "accept"
    /\ UNCHANGED << sent, maxThreads, threadCount, accepted, req, wire, result,
                    dangling, stockMap, aborted,
                    shellVars, countVars >>

\* sm::threadCount++ and the detached thread for the client is started.
AccAdmit ==
    /\ ~aborted
    /\ accPc = "incr"
    /\ threadCount' = threadCount + 1
    /\ hpc' = [hpc EXCEPT ![accepted] = "start"]
    /\ accPc' = "accept"
    /\ UNCHANGED << sent, maxThreads, accepted, req, wire, result, dangling,
                    stockMap, aborted,
                    shellVars, countVars >>

\* ------------------------------------------------------------------------
\* processTrans and its helpers, run by clientThread h
\* ------------------------------------------------------------------------

\* processTrans returns: the result is kept and the thread goes on to its
\* release step.
Return(h, msg) ==
    /\ result' = [result EXCEPT ![h] = msg]
    /\ hpc' = [hpc EXCEPT ![h] = "release"]

\* An exception leaves clientThread: std::terminate ends the process.
Throw(h) ==
    /\ hpc' = [hpc EXCEPT ![h] = "threw"]
    /\ aborted' = TRUE

\* Faulty variant of the reset below: the map is not cleared.
HReset_KeepsStore(h) ==
    /\ ~aborted
    /\ hpc[h] = "start"
    /\ req[h].trans = "reset"
    /\ Return(h, Msg("Stocks reset", "", U32Of(0)))
    /\ UNCHANGED << sent, maxThreads, threadCount, accPc, accepted, req, wire,
                    dangling, stockMap, aborted,
                    shellVars, countVars >>

\* trans == "reset": sm::stockMap.clear() destroys every Stock.  Threads
\* that hold a reference to an entry are left with a dangling reference.
HReset(h) ==
    /\ ~aborted
    /\ hpc[h] = "start"
    /\ req[h].trans = "reset"
    /\ stockMap' = EmptyMap
    /\ dangling' = [k \in Conns |->
                      dangling[k] \/ (hpc[k] \in RefPcs /\ Has(stockMap, req[k].stock))]
    /\ Return(h, Msg("Stocks reset", "", U32Of(0)))
    /\ UNCHANGED << sent, maxThreads, threadCount, accPc, accepted, req, wire,
                    aborted,
                    shellVars, countVars >>

\* Faulty variant of the check below: create goes ahead whether or not the
\* stock exists.
HCreateFind_Overwrite(h) ==
    /\ ~aborted
    /\ hpc[h] = "start"
    /\ req[h].trans = "create"
    /\ hpc' = [hpc EXCEPT ![h] = "c_insert"]
    /\ UNCHANGED << sent, maxThreads, threadCount, accPc, accepted, req, wire,
                    result, dangling, stockMap, aborted,
                    shellVars, countVars >>

\* createStock: the find() that decides between creating and reporting a
\* duplicate.
HCreateFind(h) ==
    /\ ~aborted
    /\ hpc[h] = "start"
    /\ req[h].trans = "create"
    /\ IF Has(stockMap, req[h].stock)
       THEN Return(h, Msg("already exists", req[h].stock, U32Of(0)))
       ELSE /\ hpc' = [hpc EXCEPT ![h] = "c_insert"]
            /\ UNCHANGED result
    /\ UNCHANGED << sent, maxThreads, threadCount, accPc, accepted, req, wire,
                    dangling, stockMap, aborted,
                    shellVars, countVars >>

\* sm::stockMap[stock].name = stock;
HCreateInsert(h) ==
    /\ ~aborted
    /\ hpc[h] = "c_insert"
    /\ LET s == req[h].stock
       IN  stockMap' = [Subscript(stockMap, s) EXCEPT ![s].name = s]
    /\ hpc' = [hpc EXCEPT ![h] = "c_assign"]
    /\ UNCHANGED << sent, maxThreads, threadCount, accPc, accepted, req, wire,
                    result, dangling, aborted,
                    shellVars, countVars >>

\* Faulty variant of the assignment below: the balance is not stored.
HCreateAssign_Lost(h) ==
    /\ ~aborted
    /\ hpc[h] = "c_assign"
    /\ stockMap' = Subscript(stockMap, req[h].stock)
    /\ Return(h, Msg("created", req[h].stock, req[h].amount))
    /\ UNCHANGED << sent, maxThreads, threadCount, accPc, accepted, req, wire,
                    dangling, aborted,
                    shellVars, countVars >>

\* sm::stockMap[stock].balance = balance; and the "created" message.
HCreateAssign(h) ==
    /\ ~aborted
    /\ hpc[h] = "c_assign"
    /\ LET s == req[h].stock
       IN  stockMap' = [Subscript(stockMap, s) EXCEPT ![s].balance = req[h].amount]
    /\ Return(h, Msg("created", req[h].stock, req[h].amount))
    /\ UNCHANGED << sent, maxThreads, threadCount, accPc, accepted, req, wire,
                    dangling, aborted,
                    shellVars, countVars >>

\* Faulty variant of the dispatch below: buy, sell and status go ahead
\* without the existence check.
HFind_NoLookup(h) ==
    /\ ~aborted
    /\ hpc[h] = "start"
    /\ req[h].trans \notin {"reset", "create"}
    /\ IF req[h].trans \in {"buy", "sell"}
       THEN hpc' = [hpc EXCEPT ![h] = "u_at"] /\ UNCHANGED result
       ELSE IF req[h].trans = "status"
       THEN hpc' = [hpc EXCEPT ![h] = "s_at"] /\ UNCHANGED result
       ELSE Return(h, Msg("Invalid request", "", U32Of(0)))
    /\ UNCHANGED << sent, maxThreads, threadCount, accPc, accepted, req, wire,
                    dangling, stockMap, aborted,
                    shellVars, countVars >>

\* Faulty variant of the existence check below: the name is looked up with
\* operator[], which inserts it when it is absent.
HFind_Inserts(h) ==
    /\ ~aborted
    /\ hpc[h] = "start"
    /\ req[h].trans \notin {"reset", "create"}
    /\ IF ~Has(stockMap, req[h].stock)
       THEN /\ Return(h, Msg("Stock not found", "", U32Of(0)))
            /\ stockMap' = Subscript(stockMap, req[h].stock)
       ELSE /\ UNCHANGED stockMap
            /\ IF req[h].trans \in {"buy", "sell"}
               THEN hpc' = [hpc EXCEPT ![h] = "u_at"] /\ UNCHANGED result
               ELSE IF req[h].trans = "status"
               THEN hpc' = [hpc EXCEPT ![h] = "s_at"] /\ UNCHANGED result
               ELSE Return(h, Msg("Invalid request", "", U32Of(0)))
    /\ UNCHANGED << sent, maxThreads, threadCount, accPc, accepted, req, wire,
                    dangling, aborted,
                    shellVars, countVars >>

\* processTrans, neither reset nor create: the existence check and the
\* dispatch on the transaction.
HFind(h) ==
    /\ ~aborted
    /\ hpc[h] = "start"
    /\ req[h].trans \notin {"reset", "create"}
    /\ IF ~Has(stockMap, req[h].stock)
       THEN Return(h, Msg("Stock not found", "", U32Of(0)))
       ELSE IF req[h].trans \in {"buy", "sell"}
       THEN hpc' = [hpc EXCEPT ![h] = "u_at"] /\ UNCHANGED result
       ELSE IF req[h].trans = "status"
       THEN hpc' = [hpc EXCEPT ![h] = "s_at"] /\ UNCHANGED result
       ELSE Return(h, Msg("Invalid request", "", U32Of(0)))
    /\ UNCHANGED << sent, maxThreads, threadCount, accPc, accepted, req, wire,
                    dangling, stockMap, aborted,
                    shellVars, countVars >>

\* updateBalance: Stock& stock = sm::stockMap.at(name); at() throws
\* std::out_of_range when the key is gone.
HUpdAt(h) ==
    /\ ~aborted
    /\ hpc[h] = "u_at"
    /\ IF Has(stockMap, req[h].stock)
       THEN hpc' = [hpc EXCEPT ![h] = "u_lock"] /\ UNCHANGED aborted
       ELSE Throw(h)
    /\ UNCHANGED << sent, maxThreads, threadCount, accPc, accepted, req, wire,
                    result, dangling, stockMap,
                    shellVars, countVars >>

\* Faulty variant of the locking below: one lock for the whole map, which a
\* parked buy keeps.
HUpdLock_StoreWide(h) ==
    /\ ~aborted
    /\ hpc[h] = "u_lock"
    /\ ~dangling[h]
    /\ \A n \in DOMAIN stockMap :
         stockMap[n].mutex = 0 /\ stockMap[n].condVar = {}
    /\ stockMap' = [stockMap EXCEPT ![req[h].stock].mutex = h]
    /\ hpc' = [hpc EXCEPT ![h] = IF req[h].trans = "sell" THEN "u_add" ELSE "u_wait"]
    /\ UNCHANGED << sent, maxThreads, threadCount, accPc, accepted, req, wire,
                    result, dangling, aborted,
                    shellVars, countVars >>

\* Faulty variant of the locking below: the thread does not wait for the
\* mutex to be free.
HUpdLock_NoExclusion(h) ==
    /\ ~aborted
    /\ hpc[h] = "u_lock"
    /\ ~dangling[h]
    /\ stockMap' = [stockMap EXCEPT ![req[h].stock].mutex = h]
    /\ hpc' = [hpc EXCEPT ![h] = IF req[h].trans = "sell" THEN "u_add" ELSE "u_wait"]
    /\ UNCHANGED << sent, maxThreads, threadCount, accPc, accepted, req, wire,
                    result, dangling, aborted,
                    shellVars, countVars >>

\* std::unique_lock<std::mutex> lock(stock.mutex); then the branch on trans.
HUpdLock(h) ==
    /\ ~aborted
    /\ hpc[h] = "u_lock"
    /\ ~dangling[h]
    /\ stockMap[req[h].stock].mutex = 0
    /\ stockMap' = [stockMap EXCEPT ![req[h].stock].mutex = h]
    /\ hpc' = [hpc EXCEPT ![h] = IF req[h].trans = "sell" THEN "u_add" ELSE "u_wait"]
    /\ UNCHANGED << sent, maxThreads, threadCount, accPc, accepted, req, wire,
                    result, dangling, aborted,
                    shellVars, countVars >>

\* Faulty variant of the addition below: the quantity replaces the balance.
HSellAdd_Overwrite(h) ==
    /\ ~aborted
    /\ hpc[h] = "u_add"
    /\ ~dangling[h]
    /\ stockMap' = [stockMap EXCEPT ![req[h].stock].balance = req[h].amount]
    /\ hpc' = [hpc EXCEPT ![h] = "u_notify"]
    /\ UNCHANGED << sent, maxThreads, threadCount, accPc, accepted, req, wire,
                    result, dangling, aborted,
                    shellVars, countVars >>

\* Faulty variant of the addition below: the sum stops at the largest
\* unsigned int instead of wrapping.
HSellAdd_Saturating(h) ==
    /\ ~aborted
    /\ hpc[h] = "u_add"
    /\ ~dangling[h]
    /\ LET s == req[h].stock
           sum == U32Add(stockMap[s].balance, req[h].amount)
       IN  stockMap' = [stockMap EXCEPT
                          ![s].balance = IF U32Geq(sum, stockMap[s].balance)
                                         THEN sum
                                         ELSE << Limb - 1, Limb - 1 >>]
    /\ hpc' = [hpc EXCEPT ![h] = "u_notify"]
    /\ UNCHANGED << sent, maxThreads, threadCount, accPc, accepted, req, wire,
                    result, dangling, aborted,
                    shellVars, countVars >>

\* stock.balance += trades;
HSellAdd(h) ==
    /\ ~aborted
    /\ hpc[h] = "u_add"
    /\ ~dangling[h]
    /\ LET s == req[h].stock
       IN  stockMap' = [stockMap EXCEPT
                          ![s].balance = U32Add(stockMap[s].balance, req[h].amount)]
    /\ hpc' = [hpc EXCEPT ![h] = "u_notify"]
    /\ UNCHANGED << sent, maxThreads, threadCount, accPc, accepted, req, wire,
                    result, dangling, aborted,
                    shellVars, countVars >>

\* Faulty variant of the notification below: nobody is woken.
NotifyOne_Dropped(waiters) == {{}}

\* The threads that stock.condVar.notify_one() may wake: one of the waiters
\* (none when nobody waits).
NotifyOne(waiters) == { {w} : w \in waiters } \cup (IF waiters = {} THEN {{}} ELSE {})

\* stock.condVar.notify_one(); return (the unique_lock unlocks the mutex).
HSellNotify(h) ==
    /\ ~aborted
    /\ hpc[h] = "u_notify"
    /\ ~dangling[h]
    /\ LET s == req[h].stock
       IN  \E W \in NotifyOne(stockMap[s].condVar) :
             /\ stockMap' = [stockMap EXCEPT
                               ![s].condVar = stockMap[s].condVar \ W,
                               ![s].mutex = 0]
             /\ hpc' = [k \in Conns |->
                          IF k = h THEN "release"
                          ELSE IF k \in W THEN "woken" ELSE hpc[k]]
             /\ result' = [result EXCEPT ![h] = Msg("balance updated", s, U32Of(0))]
    /\ UNCHANGED << sent, maxThreads, threadCount, accPc, accepted, req, wire,
                    dangling, aborted,
                    shellVars, countVars >>

\* Faulty variant of the wait below: the thread gives its slot back when it
\* blocks.
HBuyWait_ReleasesSlot(h) ==
    /\ ~aborted
    /\ hpc[h] = "u_wait"
    /\ ~dangling[h]
    /\ LET s == req[h].stock
       IN  IF U32Geq(stockMap[s].balance, req[h].amount)
           THEN /\ hpc' = [hpc EXCEPT ![h] = "u_assert"]
                /\ UNCHANGED << stockMap, threadCount >>
           ELSE /\ hpc' = [hpc EXCEPT ![h] = "parked"]
                /\ threadCount' = threadCount - 1
                /\ stockMap' = [stockMap EXCEPT
                                  ![s].condVar = stockMap[s].condVar \cup {h},
                                  ![s].mutex = 0]
    /\ UNCHANGED << sent, maxThreads, accPc, accepted, req, wire, result,
                    dangling, aborted,
                    shellVars, countVars >>

\* Faulty variant of the wait below: the thread blocks without releasing
\* the mutex.
HBuyWait_KeepsLock(h) ==
    /\ ~aborted
    /\ hpc[h] = "u_wait"
    /\ ~dangling[h]
    /\ LET s == req[h].stock
       IN  IF U32Geq(stockMap[s].balance, req[h].amount)
           THEN /\ hpc' = [hpc EXCEPT ![h] = "u_assert"]
                /\ UNCHANGED stockMap
           ELSE /\ hpc' = [hpc EXCEPT ![h] = "parked"]
                /\ stockMap' = [stockMap EXCEPT
                                  ![s].condVar = stockMap[s].condVar \cup {h}]
    /\ UNCHANGED << sent, maxThreads, threadCount, accPc, accepted, req, wire,
                    result, dangling, aborted,
                    shellVars, countVars >>

\* Faulty variant of the wait below: the predicate is balance > trades.
HBuyWait_Strict(h) ==
    /\ ~aborted
    /\ hpc[h] = "u_wait"
    /\ ~dangling[h]
    /\ LET s == req[h].stock
       IN  IF ~U32Geq(req[h].amount, stockMap[s].balance)
           THEN /\ hpc' = [hpc EXCEPT ![h] = "u_assert"]
                /\ UNCHANGED stockMap
           ELSE /\ hpc' = [hpc EXCEPT ![h] = "parked"]
                /\ stockMap' = [stockMap EXCEPT
                                  ![s].condVar = stockMap[s].condVar \cup {h},
                                  ![s].mutex = 0]
    /\ UNCHANGED << sent, maxThreads, threadCount, accPc, accepted, req, wire,
                    result, dangling, aborted,
                    shellVars, countVars >>

\* stock.condVar.wait(lock, [] { return stock.balance >= trades; }): the
\* predicate is evaluated with the mutex held; when it is false the thread
\* releases the mutex and blocks on the condition variable atomically.
HBuyWait(h) ==
    /\ ~aborted
    /\ hpc[h] = "u_wait"
    /\ ~dangling[h]
    /\ LET s == req[h].stock
       IN  IF U32Geq(stockMap[s].balance, req[h].amount)
           THEN /\ hpc' = [hpc EXCEPT ![h] = "u_assert"]
                /\ UNCHANGED stockMap
           ELSE /\ hpc' = [hpc EXCEPT ![h] = "parked"]
                /\ stockMap' = [stockMap EXCEPT
                                  ![s].condVar = stockMap[s].condVar \cup {h},
                                  ![s].mutex = 0]
    /\ UNCHANGED << sent, maxThreads, threadCount, accPc, accepted, req, wire,
                    result, dangling, aborted,
                    shellVars, countVars >>

\* A woken waiter reacquires the mutex before wait() re-evaluates the
\* predicate.
HBuyWake(h) ==
    /\ ~aborted
    /\ hpc[h] = "woken"
    /\ ~dangling[h]
    /\ stockMap[req[h].stock].mutex = 0
    /\ stockMap' = [stockMap EXCEPT ![req[h].stock].mutex = h]
    /\ hpc' = [hpc EXCEPT ![h] = "u_wait"]
    /\ UNCHANGED << sent, maxThreads, threadCount, accPc, accepted, req, wire,
                    result, dangling, aborted,
                    shellVars, countVars >>

\* A waiter may wake up spuriously.
HSpurious(h) ==
    /\ ~aborted
    /\ hpc[h] = "parked"
    /\ ~dangling[h]
    /\ stockMap' = [stockMap EXCEPT
                      ![req[h].stock].condVar = stockMap[req[h].stock].condVar \ {h}]
    /\ hpc' = [hpc EXCEPT ![h] = "woken"]
    /\ UNCHANGED << sent, maxThreads, threadCount, accPc, accepted, req, wire,
                    result, dangling, aborted,
                    shellVars, countVars >>

\* assert(stock.balance >= trades); a failed assert aborts the process.
HBuyAssert(h) ==
    /\ ~aborted
    /\ hpc[h] = "u_assert"
    /\ ~dangling[h]
    /\ IF U32Geq(stockMap[req[h].stock].balance, req[h].amount)
       THEN hpc' = [hpc EXCEPT ![h] = "u_sub"] /\ UNCHANGED aborted
       ELSE hpc' = [hpc EXCEPT ![h] = "assert_failed"] /\ aborted' = TRUE
    /\ UNCHANGED << sent, maxThreads, threadCount, accPc, accepted, req, wire,
                    result, dangling, stockMap,
                    shellVars, countVars >>

\* stock.balance -= trades; return (the unique_lock unlocks the mutex).
HBuySub(h) ==
    /\ ~aborted
    /\ hpc[h] = "u_sub"
    /\ ~dangling[h]
    /\ LET s == req[h].stock
       IN  /\ stockMap' = [stockMap EXCEPT
                             ![s].balance = U32Sub(stockMap[s].balance, req[h].amount),
                             ![s].mutex = 0]
           /\ Return(h, Msg("balance updated", s, U32Of(0)))
    /\ UNCHANGED << sent, maxThreads, threadCount, accPc, accepted, req, wire,
                    dangling, aborted,
                    shellVars, countVars >>

\* balanceStatus: sm::stockMap.at(stock) for the lock_guard's mutex.
HStatAt(h) ==
    /\ ~aborted
    /\ hpc[h] = "s_at"
    /\ IF Has(stockMap, req[h].stock)
       THEN hpc' = [hpc EXCEPT ![h] = "s_lock"] /\ UNCHANGED aborted
       ELSE Throw(h)
    /\ UNCHANGED << sent, maxThreads, threadCount, accPc, accepted, req, wire,
                    result, dangling, stockMap,
                    shellVars, countVars >>

\* std::lock_guard<std::mutex> lock(...mutex);
HStatLock(h) ==
    /\ ~aborted
    /\ hpc[h] = "s_lock"
    /\ ~dangling[h]
    /\ stockMap[req[h].stock].mutex = 0
    /\ stockMap' = [stockMap EXCEPT ![req[h].stock].mutex = h]
    /\ hpc' = [hpc EXCEPT ![h] = "s_read"]
    /\ UNCHANGED << sent, maxThreads, threadCount, accPc, accepted, req, wire,
                    result, dangling, aborted,
                    shellVars, countVars >>

\* output << ... << sm::stockMap.at(stock).balance; the map is looked up
\* again, then the lock_guard unlocks the mutex it locked.
HStatRead(h) ==
    /\ ~aborted
    /\ hpc[h] = "s_read"
    /\ LET s == req[h].stock
       IN  IF Has(stockMap, s)
           THEN /\ Return(h, Msg("Balance for stock", s, stockMap[s].balance))
                /\ stockMap' = IF dangling[h] THEN stockMap
                               ELSE [stockMap EXCEPT ![s].mutex = 0]
                /\ dangling' = [dangling EXCEPT ![h] = FALSE]
                /\ UNCHANGED aborted
           ELSE /\ Throw(h)
                /\ UNCHANGED << result, stockMap, dangling >>
    /\ UNCHANGED << sent, maxThreads, threadCount, accPc, accepted, req,
                    wire,
                    shellVars, countVars >>

\* A thread uses a Stock that clear() destroyed (its mutex, condition
\* variable or balance): undefined behaviour.  The process may crash, or the
\* thread may run on over the freed memory and return without any effect on
\* the map; a thread that stays blocked on the destroyed object takes no step.
HDangling(h) ==
    /\ ~aborted
    /\ dangling[h]
    /\ hpc[h] \in RefPcs \ {"s_read"}
    /\ \/ /\ aborted' = TRUE
          /\ UNCHANGED << hpc, result, dangling >>
       \/ /\ hpc[h] = "s_lock"
          /\ hpc' = [hpc EXCEPT ![h] = "s_read"]
          /\ UNCHANGED << result, dangling, aborted >>
       \/ /\ hpc[h] # "s_lock"
          /\ Return(h, Msg("balance updated", req[h].stock, U32Of(0)))
          /\ dangling' = [dangling EXCEPT ![h] = FALSE]
          /\ UNCHANGED aborted
    /\ UNCHANGED << sent, maxThreads, threadCount, accPc, accepted, req, wire,
                    stockMap,
                    shellVars, countVars >>

\* Positions whose next statement reads or writes the structure of
\* sm::stockMap, and those whose next statement changes it.
MapAccess(h) == hpc[h] \in {"start", "c_insert", "c_assign", "u_at", "s_at", "s_read"}

MapWrite(h) ==
    \/ hpc[h] = "start" /\ req[h].trans = "reset"
    \/ hpc[h] \in {"c_insert", "c_assign"} /\ ~Has(stockMap, req[h].stock)

\* sm::stockMap has no lock of its own: a thread changing the map while
\* another thread is in a map operation is a data race, which may crash the
\* process (the other outcomes are the interleavings of the statements).
MapRace ==
    /\ ~aborted
    /\ \E h1, h2 \in Conns : h1 # h2 /\ MapWrite(h1) /\ MapAccess(h2)
    /\ aborted' = TRUE
    /\ UNCHANGED << sent, maxThreads, threadCount, accPc, accepted, hpc, req,
                    wire, result, dangling, stockMap,
                    shellVars, countVars >>

\* ------------------------------------------------------------------------
\* clientThread after processTrans: release of the slot and the response
\* ------------------------------------------------------------------------

\* Faulty variant of the release below: the response is written before the
\* slot is released.
HDecrement_SendsFirst(h) ==
    /\ ~aborted
    /\ hpc[h] = "release"
    /\ sent' = [sent EXCEPT ![h] = Append(@, SendResponse(Render(result[h])))]
    /\ threadCount' = threadCount - 1
    /\ hpc' = [hpc EXCEPT ![h] = "notify"]
    /\ UNCHANGED << maxThreads, accPc, accepted, req, wire, result, dangling,
                    stockMap, aborted,
                    shellVars, countVars >>

\* sm::threadCount--;
HDecrement(h) ==
    /\ ~aborted
    /\ hpc[h] = "release"
    /\ threadCount' = threadCount - 1
    /\ hpc' = [hpc EXCEPT ![h] = "notify"]
    /\ UNCHANGED << sent, maxThreads, accPc, accepted, req, wire, result,
                    dangling, stockMap, aborted,
                    shellVars, countVars >>

\* sm::threadStatus.notify_one(); wakes the accept loop if it is blocked on
\* the condition variable at this moment, and is lost otherwise.
HNotify(h) ==
    /\ ~aborted
    /\ hpc[h] = "notify"
    /\ accPc' = IF accPc = "parked" THEN "check" ELSE accPc
    /\ hpc' = [hpc EXCEPT ![h] = "send"]
    /\ UNCHANGED << sent, maxThreads, threadCount, accepted, req, wire,
                    result, dangling, stockMap, aborted,
                    shellVars, countVars >>

\* sendResponse(os, result); and the thread function returns.
HSend(h) ==
    /\ ~aborted
    /\ hpc[h] = "send"
    /\ sent' = [sent EXCEPT ![h] = Append(@, SendResponse(Render(result[h])))]
    /\ hpc' = [hpc EXCEPT ![h] = "done"]
    /\ UNCHANGED << maxThreads, threadCount, accPc, accepted, req, wire,
                    result, dangling, stockMap, aborted,
                    shellVars, countVars >>

\* ------------------------------------------------------------------------
\* The server
\* ------------------------------------------------------------------------

Acceptor == AccAccept \/ AccCheck \/ AccPark \/ AccSpurious \/ AccAdmit

Handler(h) ==
    \/ HReset(h) \/ HCreateFind(h) \/ HCreateInsert(h) \/ HCreateAssign(h)
    \/ HFind(h) \/ HUpdAt(h) \/ HUpdLock(h) \/ HSellAdd(h) \/ HSellNotify(h)
    \/ HBuyWait(h) \/ HBuyWake(h) \/ HSpurious(h) \/ HBuyAssert(h) \/ HBuySub(h)
    \/ HStatAt(h) \/ HStatLock(h) \/ HStatRead(h) \/ HDangling(h)
    \/ HDecrement(h) \/ HNotify(h) \/ HSend(h)

Next ==
    \/ Acceptor
    \/ \E h \in Conns : Handler(h)
    \/ MapRace

Spec == Init /\ [][Next]_vars

\* ------------------------------------------------------------------------
\* Trading on an existing stock: the server after "create X b" was answered
\* and one clientThread per connection has been started, each with a buy, a
\* sell or a status request on X.
\* ------------------------------------------------------------------------

TradeBalances == {5, 10}

TradeWire ==
    { Line("buy", "X", "15"), Line("buy", "X", "10"), Line("buy", "X", "0"),
      Line("sell", "X", "5"), << "/trans", "status", "stock", "X" >> }

InitTrade ==
    /\ maxThreads = MaxConn
    /\ threadCount = MaxConn
    /\ accPc = "accept"
    /\ accepted = MaxConn
    /\ hpc = [h \in Conns |-> "start"]
    /\ wire \in [Conns -> TradeWire]
    /\ req = [h \in Conns |-> ParseRequest(wire[h])]
    /\ result = [h \in Conns |-> NoResult]
    /\ dangling = [h \in Conns |-> FALSE]
    /\ \E b \in TradeBalances :
         stockMap = [n \in {"X"} |->
                       [name |-> "X", balance |-> U32Of(b), mutex |-> 0, condVar |-> {}]]
    /\ sent = [h \in Conns |-> << >>]
    /\ aborted = FALSE
    /\ ShellOff /\ CountOff

\* The steps of a clientThread that runs a buy or a sell, and of one that
\* runs a status, other than taking the mutex and spurious wake-ups.
UpdateStep(h) ==
    \/ HFind(h) \/ HUpdAt(h) \/ HSellAdd(h) \/ HSellNotify(h)
    \/ HBuyWait(h) \/ HBuyAssert(h) \/ HBuySub(h)
    \/ HDecrement(h) \/ HNotify(h) \/ HSend(h)

StatusStep(h) == HStatAt(h) \/ HStatRead(h)

TradeStep(h) == UpdateStep(h) \/ StatusStep(h)

\* The steps that acquire a Stock's mutex.
UpdateLock(h) == HUpdLock(h) \/ HBuyWake(h)

LockStep(h) == UpdateLock(h) \/ HStatLock(h)

NextTrade == \E h \in Conns : TradeStep(h) \/ LockStep(h) \/ HSpurious(h)

SpecTrade == InitTrade /\ [][NextTrade]_vars

\* Every thread keeps running, and a thread that waits for a mutex that is
\* released again and again gets it; spurious wake-ups are not guaranteed.
FairTrade ==
    /\ SpecTrade
    /\ \A h \in Conns : WF_vars(TradeStep(h)) /\ SF_vars(LockStep(h))

\* ------------------------------------------------------------------------
\* Two stocks: X with balance 5, on which every buy blocks for good (nobody
\* sells X), and Y with balance 15.  One clientThread per connection has
\* been started, each with a buy on X or a buy, a sell or a status on Y.
\* ------------------------------------------------------------------------

PairWire ==
    { Line("buy", "X", "15"), Line("buy", "X", "10"), Line("sell", "Y", "5"),
      Line("buy", "Y", "5"), << "/trans", "status", "stock", "Y" >> }

InitPair ==
    /\ maxThreads = MaxConn
    /\ threadCount = MaxConn
    /\ accPc = "accept"
    /\ accepted = MaxConn
    /\ hpc = [h \in Conns |-> "start"]
    /\ wire \in [Conns -> PairWire]
    /\ req = [h \in Conns |-> ParseRequest(wire[h])]
    /\ result = [h \in Conns |-> NoResult]
    /\ dangling = [h \in Conns |-> FALSE]
    /\ stockMap = [n \in {"X", "Y"} |->
                     [name |-> n,
                      balance |-> IF n = "X" THEN U32Of(5) ELSE U32Of(15),
                      mutex |-> 0, condVar |-> {}]]
    /\ sent = [h \in Conns |-> << >>]
    /\ aborted = FALSE
    /\ ShellOff /\ CountOff

SpecPair == InitPair /\ [][NextTrade]_vars

FairPair ==
    /\ SpecPair
    /\ \A h \in Conns : WF_vars(TradeStep(h)) /\ SF_vars(LockStep(h))

\* ------------------------------------------------------------------------
\* The scenario of the tests: "create X 10" is sent and answered, then a
\* client sends "buy X 15" and a client sends "sell X 5".
\* ------------------------------------------------------------------------

Script == << Line("create", "X", "10"), Line("buy", "X", "15"),
             Line("sell", "X", "5") >>

ScriptConns == 1..Len(Script)

\* server.accept() in the scenario: the clients connect in the order of the
\* script, the second one after the first was answered.
AccAcceptScript ==
    /\ ~aborted
    /\ accPc = "accept"
    /\ accepted < Len(Script)
    /\ accepted = 1 => hpc[1] = "done"
    /\ wire' = [wire EXCEPT ![accepted + 1] = Script[accepted + 1]]
    /\ req' = [req EXCEPT ![accepted + 1] = ParseRequest(Script[accepted + 1])]
    /\ accepted' = accepted + 1
    /\ accPc' = "check"
    /\ UNCHANGED << sent, maxThreads, threadCount, hpc, result, dangling,
                    stockMap, aborted,
                    shellVars, countVars >>

ScriptStep(h) ==
    \/ HCreateFind(h) \/ HCreateInsert(h) \/ HCreateAssign(h) \/ UpdateStep(h)

AcceptorStep == AccAcceptScript \/ AccCheck \/ AccPark \/ AccAdmit

NextScript ==
    \/ AcceptorStep
    \/ AccSpurious
    \/ \E h \in Conns : ScriptStep(h) \/ UpdateLock(h) \/ HSpurious(h)

SpecScript == Init /\ [][NextScript]_vars

FairScript ==
    /\ SpecScript
    /\ WF_vars(AcceptorStep)
    /\ \A h \in Conns : WF_vars(ScriptStep(h)) /\ SF_vars(UpdateLock(h))

\* ------------------------------------------------------------------------
\* One client, one request at a time: the client opens its next connection
\* after it has read the response to the previous one.  The requests include
\* a second stock name, a transaction that is none of the five, requests
\* whose trailing key=value pairs are missing, a request with other keys and
\* one whose quantity is not a number.
\* ------------------------------------------------------------------------

SeqWire ==
    { Line("create", "X", "100"), Line("create", "X", "50"),
      Line("sell", "X", "30"), Line("buy", "X", "30"),
      << "/trans", "status", "stock", "X" >>,
      << "/trans", "reset" >>, Line("reset", "X", "50"),
      << "/trans", "audit", "stock", "X" >>,
      << "/trans", "create", "stock", "Y" >>,
      << "/trans", "status" >>, << "/trans", "create" >>, << "/" >>,
      << "/t", "create", "s", "X", "a", "100" >>,
      Line("sell", "X", "abc") }

\* server.accept() when the client sends its requests one after the other.
AccAcceptSeq ==
    /\ ~aborted
    /\ accPc = "accept"
    /\ accepted < MaxConn
    /\ accepted > 0 => hpc[accepted] = "done"
    /\ \E w \in SeqWire :
         /\ wire' = [wire EXCEPT ![accepted + 1] = w]
         /\ req' = [req EXCEPT ![accepted + 1] = ParseRequest(w)]
    /\ accepted' = accepted + 1
    /\ accPc' = "check"
    /\ UNCHANGED << maxThreads, threadCount, hpc, result, dangling, stockMap,
                    sent, aborted,
                    shellVars, countVars >>

NextSeq ==
    \/ AccAcceptSeq \/ AccCheck \/ AccAdmit
    \/ \E h \in Conns :
         \/ HReset(h) \/ ScriptStep(h) \/ StatusStep(h) \/ LockStep(h)
         \/ HSpurious(h)

SpecSeq == Init /\ [][NextSeq]_vars

\* ------------------------------------------------------------------------
\* The transaction processors of raodm_homework8.cpp and
\* zarembmj_homework8.cpp, run on the requests of the sequential client.  A
\* store is a function from names to balances; a transaction yields the new
\* store and its result, or blocks.
\* ------------------------------------------------------------------------

EmptyStore == [n \in {} |-> U32Of(0)]

\* raodm_homework8.cpp: checkCreate.
raodm_checkCreate(m, r) ==
    IF r.stock \notin DOMAIN m
    THEN [map |-> [n \in DOMAIN m \cup {r.stock} |->
                     IF n = r.stock THEN r.amount ELSE m[n]],
          msg |-> Msg("created", r.stock, r.amount), blocked |-> FALSE]
    ELSE [map |-> m, msg |-> Msg("already exists", r.stock, U32Of(0)),
          blocked |-> FALSE]

\* raodm_homework8.cpp: getStatus.
raodm_getStatus(m, r) ==
    [map |-> m, msg |-> Msg("Balance for stock", r.stock, m[r.stock]),
     blocked |-> FALSE]

\* raodm_homework8.cpp: updateBalance; a buy that the balance does not cover stays in
\* condVar.wait, as nobody else runs.
raodm_updateBalance(m, r) ==
    IF r.trans = "sell"
    THEN [map |-> [m EXCEPT ![r.stock] = U32Add(m[r.stock], r.amount)],
          msg |-> Msg("balance updated", r.stock, U32Of(0)), blocked |-> FALSE]
    ELSE IF U32Geq(m[r.stock], r.amount)
    THEN [map |-> [m EXCEPT ![r.stock] = U32Sub(m[r.stock], r.amount)],
          msg |-> Msg("balance updated", r.stock, U32Of(0)), blocked |-> FALSE]
    ELSE [map |-> m, msg |-> NoResult, blocked |-> TRUE]

\* raodm_homework8.cpp: processTrans.
raodm_processTrans(m, r) ==
    IF r.trans = "create" THEN raodm_checkCreate(m, r)
    ELSE IF r.stock \notin DOMAIN m
    THEN [map |-> m, msg |-> Msg("Stock not found", "", U32Of(0)),
          blocked |-> FALSE]
    ELSE IF r.trans \in {"buy", "sell"} THEN raodm_updateBalance(m, r)
    ELSE IF r.trans = "status" THEN raodm_getStatus(m, r)
    ELSE [map |-> m, msg |-> Msg("Invalid request", "", U32Of(0)),
          blocked |-> FALSE]

\* raodm_homework8.cpp after the first k requests of the client, run one after the
\* other from the empty store; the run stops at a buy that blocks.
RECURSIVE raodm_Run(_)
raodm_Run(k) ==
    IF k = 0 THEN [map |-> EmptyStore, msg |-> NoResult, blocked |-> FALSE]
    ELSE LET p == raodm_Run(k - 1)
         IN  IF p.blocked THEN p ELSE raodm_processTrans(p.map, req[k])

\* zarembmj_homework8.cpp: createStock.
hw8_createStock(m, r) ==
    IF r.stock \notin DOMAIN m
    THEN [map |-> [n \in DOMAIN m \cup {r.stock} |->
                     IF n = r.stock THEN r.amount ELSE m[n]],
          msg |-> Msg("created", r.stock, r.amount), blocked |-> FALSE]
    ELSE [map |-> m, msg |-> Msg("already exists", r.stock, U32Of(0)),
          blocked |-> FALSE]

\* zarembmj_homework8.cpp: balanceStatus.
hw8_balanceStatus(m, r) ==
    [map |-> m, msg |-> Msg("Balance for stock", r.stock, m[r.stock]),
     blocked |-> FALSE]

\* zarembmj_homework8.cpp: updateBalance; a buy that the balance does not cover stays in
\* condVar.wait, as nobody else runs.
hw8_updateBalance(m, r) ==
    IF r.trans = "sell"
    THEN [map |-> [m EXCEPT ![r.stock] = U32Add(m[r.stock], r.amount)],
          msg |-> Msg("balance updated", r.stock, U32Of(0)), blocked |-> FALSE]
    ELSE IF U32Geq(m[r.stock], r.amount)
    THEN [map |-> [m EXCEPT ![r.stock] = U32Sub(m[r.stock], r.amount)],
          msg |-> Msg("balance updated", r.stock, U32Of(0)), blocked |-> FALSE]
    ELSE [map |-> m, msg |-> NoResult, blocked |-> TRUE]

\* zarembmj_homework8.cpp: processTrans.
hw8_processTrans(m, r) ==
    IF r.trans = "reset"
    THEN [map |-> EmptyStore, msg |-> Msg("Stocks reset", "", U32Of(0)),
          blocked |-> FALSE]
    ELSE IF r.trans = "create" THEN hw8_createStock(m, r)
    ELSE IF r.stock \notin DOMAIN m
    THEN [map |-> m, msg |-> Msg("Stock not found", "", U32Of(0)),
          blocked |-> FALSE]
    ELSE IF r.trans \in {"buy", "sell"} THEN hw8_updateBalance(m, r)
    ELSE IF r.trans = "status" THEN hw8_balanceStatus(m, r)
    ELSE [map |-> m, msg |-> Msg("Invalid request", "", U32Of(0)),
          blocked |-> FALSE]

\* zarembmj_homework8.cpp after the first k requests of the client, run one after the
\* other from the empty store; the run stops at a buy that blocks.
RECURSIVE hw8_Run(_)
hw8_Run(k) ==
    IF k = 0 THEN [map |-> EmptyStore, msg |-> NoResult, blocked |-> FALSE]
    ELSE LET p == hw8_Run(k - 1)
         IN  IF p.blocked THEN p ELSE hw8_processTrans(p.map, req[k])

\* ------------------------------------------------------------------------
\* Properties
\* ------------------------------------------------------------------------

\* The balance of stock s.
Balance(s) == stockMap[s].balance

\* No accepted connection carries a reset.
NoReset == \A h \in Conns : req[h].trans # "reset"

\* Thread h was admitted (threadCount was incremented for it) and has not
\* executed its decrement.
InFlight(h) == hpc[h] \notin {"idle", "notify", "send", "done"}

\* Thread h was started and its thread function has not returned.
Alive(h) == ~aborted /\ hpc[h] \notin {"idle", "done"}

\* C1: a buy subtracts its quantity only when balance >= quantity holds
\* under the stock's mutex: the assert in updateBalance never fails and the
\* subtraction never wraps below zero.
C1_BuyNeverUnderflows ==
    \A h \in Conns :
        /\ hpc[h] # "assert_failed"
        /\ (hpc[h] = "u_sub" /\ ~dangling[h])
              => U32Geq(Balance(req[h].stock), req[h].amount)

\* C2: at most maxThreads threads are between their admission and their
\* release step; a connection is admitted only into a free slot.
C2_AdmissionCeiling ==
    /\ Cardinality({h \in Conns : InFlight(h)}) <= maxThreads
    /\ threadCount <= maxThreads

\* C2 witness: every slot is taken and the accept loop waits with the next
\* connection.
C2_CeilingReached ==
    /\ maxThreads = 2
    /\ Cardinality({h \in Conns : InFlight(h)}) = maxThreads
    /\ accPc = "parked"
    /\ hpc[accepted] = "idle"

\* The threads of the trading scenario that run a buy.
Buyers == {h \in Conns : req[h].trans = "buy"}

\* The sum of the quantities of the sells among the threads of S.
RECURSIVE SumSells(_)
SumSells(S) ==
    IF S = {} THEN U32Of(0)
    ELSE LET h == CHOOSE x \in S : TRUE
         IN  U32Add(IF req[h].trans = "sell" THEN req[h].amount ELSE U32Of(0),
                    SumSells(S \ {h}))

\* The quantity of the buyer, when there is one.
Bought == IF Buyers = {} THEN U32Of(0) ELSE req[CHOOSE h \in Buyers : TRUE].amount

AllDone == \A h \in Conns : hpc[h] = "done"

\* C3: with one buyer of quantity q on X and sells that raise the balance b
\* to at least q, every thread completes and the final balance is
\* b + sum of sells - q (b = 10, buy 15, sell 5: final balance 0).
C3_BlockedBuyCompletes ==
    \A b \in TradeBalances :
        ( /\ Balance("X") = U32Of(b)
          /\ Cardinality(Buyers) = 1
          /\ U32Geq(U32Add(U32Of(b), SumSells(Conns)), Bought) )
        => <>( /\ AllDone
               /\ Balance("X") = U32Sub(U32Add(U32Of(b), SumSells(Conns)), Bought) )

\* C3 witness: the only buyer, of 15, was blocked and has been woken now
\* that a sell has raised the balance to 15.
C3_BuyerWoken ==
    /\ Cardinality(Buyers) = 1
    /\ \E h \in Buyers :
         /\ req[h].amount = U32Of(15)
         /\ hpc[h] = "woken"
         /\ Balance("X") = U32Of(15)
    /\ \E s \in Conns : req[s].trans = "sell" /\ hpc[s] = "release"

\* C4: without a reset, two creates of the same name never both report
\* "created".
C4_OneCreated ==
    NoReset =>
        \A h1, h2 \in Conns :
            (h1 # h2 /\ result[h1].text = "created" /\ result[h2].text = "created")
               => result[h1].stock # result[h2].stock

\* C5: no buyer stays blocked on the condition variable with its predicate
\* true once every other thread has finished or is blocked itself.
C5_SatisfiableBuyerProceeds ==
    \A b \in Conns :
        ( /\ ~aborted
          /\ hpc[b] = "parked"
          /\ ~dangling[b]
          /\ \A k \in Conns \ {b} : hpc[k] \in {"done", "parked"} )
        => ~U32Geq(Balance(req[b].stock), req[b].amount)

\* C6: the accept loop is never left blocked on the condition variable
\* while a slot is free and no release signal is still to come.
C6_NoLostWakeup ==
    (~aborted /\ accPc = "parked" /\ threadCount < maxThreads)
       => \E h \in Conns : hpc[h] = "notify"

\* The connections of the scenario were all answered and X is left with
\* balance 0.
ScriptDone ==
    /\ \A h \in ScriptConns : hpc[h] = "done"
    /\ Has(stockMap, "X") /\ Balance("X") = U32Of(0)

C8_ReleaseOnEveryExit ==
    \A h \in Conns : hpc[h] \in {"done", "threw"} => hpc[h] = "done"

\* C9: the number of detached threads alive is at most maxThreads.
C9_ThreadsWithinLimit ==
    Cardinality({h \in Conns : Alive(h)}) <= maxThreads

\* C10: while the only creator of a stock has inserted the entry and not yet
\* assigned its balance, no other thread has found the stock in the map.
C10_NoHalfInsertedObserved ==
    \A c, h \in Conns :
        ( /\ c # h
          /\ hpc[c] = "c_assign"
          /\ Has(stockMap, req[c].stock)
          /\ \A k \in Conns \ {c} : req[k].trans \notin {"create", "reset"}
          /\ req[h].stock = req[c].stock )
        => hpc[h] \notin ({"u_at", "s_at"} \cup RefPcs)

\* C11: reset never destroys a Stock while another clientThread holds a
\* reference to it or is parked on its condition variable: no thread is ever
\* left with a reference to a destroyed Stock.
C11_ResetSparesReferencedStocks == \A h \in Conns : ~dangling[h]

\* Positions at which a clientThread owns the mutex of its Stock.
LockedPcs == {"u_add", "u_notify", "u_wait", "u_assert", "u_sub", "s_read"}

\* The threads inside the critical section of stock s.
InCritical(s) == {h \in Conns : hpc[h] \in LockedPcs /\ req[h].stock = s}

\* The sells whose addition and the buys whose subtraction were executed.
SellsApplied ==
    {h \in Conns : req[h].trans = "sell" /\
                   hpc[h] \in {"u_notify", "release", "notify", "send", "done"}}

BuysApplied ==
    {h \in Conns : req[h].trans = "buy" /\
                   hpc[h] \in {"release", "notify", "send", "done"}}

\* The sum of the quantities of the requests of the threads of S.
RECURSIVE SumAmounts(_)
SumAmounts(S) ==
    IF S = {} THEN U32Of(0)
    ELSE LET h == CHOOSE x \in S : TRUE
         IN  U32Add(req[h].amount, SumAmounts(S \ {h}))

\* C12: operations on one stock are serialized by its mutex and no update is
\* lost.  In the trading scenario on X with initial balance b: at most one
\* thread is inside the critical section of X, and it is the owner of the
\* mutex; the balance always equals b plus the quantities of the sells
\* applied minus those of the buys applied (so b + sold - bought once all
\* have completed); and a status reports the balance as it is while the
\* status alone is inside the critical section.
C12_SerializedNoLostUpdate ==
    /\ \A b \in TradeBalances :
         (Balance("X") = U32Of(b)) =>
             [](/\ Cardinality(InCritical("X")) <= 1
                /\ \A h \in InCritical("X") : stockMap["X"].mutex = h
                /\ Balance("X") = U32Sub(U32Add(U32Of(b), SumAmounts(SellsApplied)),
                                         SumAmounts(BuysApplied)))
    /\ [][\A h \in Conns :
            (hpc[h] = "s_read" /\ hpc'[h] = "release") =>
                /\ InCritical("X") = {h}
                /\ result'[h] = Msg("Balance for stock", "X", Balance("X"))]_vars

\* C12 witness: a sell of 5, a buy of 10 and a status ran concurrently on X
\* with balance 10 and all completed; the status reported 15, the balance
\* between the sell and the buy, and the final balance is 5.
C12_StatusBetweenSellAndBuy ==
    /\ AllDone
    /\ \E s, b, t \in Conns :
         /\ req[s] = Request("sell", "X", 5)
         /\ req[b] = Request("buy", "X", 10)
         /\ result[t] = Msg("Balance for stock", "X", U32Of(15))
    /\ Balance("X") = U32Of(5)

\* processTrans has returned in thread h.
Returned(h) == hpc[h] \in {"release", "notify", "send", "done"}

\* Thread h is about to run processTrans with a buy, sell or status on a name
\* that is not in the map.
LooksUpAbsent(h) ==
    /\ ~aborted
    /\ hpc[h] = "start"
    /\ req[h].trans \in {"status", "buy", "sell"}
    /\ ~Has(stockMap, req[h].stock)

\* C13: a status, buy or sell on a name that is not in the store (never
\* created, or created before the last reset and not since) does not block,
\* returns "Stock not found" and leaves the store unchanged.
C13_AbsentNameNotFound ==
    /\ [](\A h \in Conns : LooksUpAbsent(h) => ENABLED HFind(h))
    /\ [][\A h \in Conns :
            (LooksUpAbsent(h) /\ hpc'[h] # hpc[h]) =>
                /\ hpc'[h] = "release"
                /\ Render(result'[h]) = "Stock not found"
                /\ stockMap' = stockMap]_vars

\* C13 witness: X was created, a reset was answered, and the buy on X that
\* followed was answered "Stock not found".
C13_NotFoundAfterReset ==
    /\ Render(result[1]) = "Stock X created with balance = 100"
    /\ req[2].trans = "reset" /\ hpc[2] = "done"
    /\ req[3] = Request("buy", "X", 30)
    /\ hpc[3] = "done"
    /\ Render(result[3]) = "Stock not found"

\* C14: create on a name that is already in the store is a no-op: it returns
\* "Stock <name> already exists" and leaves the existing balance and every
\* other entry unchanged, whatever its quantity (create X 100 followed by
\* create X 50 leaves X at 100).
C14_CreateExistingIsNoOp ==
    /\ []((/\ req[1] = Request("create", "X", 100)
           /\ req[2] = Request("create", "X", 50)
           /\ accepted = 2 /\ Returned(2))
              => /\ Render(result[2]) = "Stock X already exists"
                 /\ Balance("X") = U32Of(100))
    /\ [][\A h \in Conns :
            (/\ hpc[h] = "start" /\ req[h].trans = "create"
             /\ Has(stockMap, req[h].stock)
             /\ hpc'[h] # hpc[h]) =>
                /\ hpc'[h] = "release"
                /\ Render(result'[h]) = "Stock " \o req[h].stock \o " already exists"
                /\ stockMap' = stockMap]_vars

\* C14 witness: create X 100 was answered, then create X 50 was answered
\* "Stock X already exists".
C14_SecondCreateAnswered ==
    /\ req[1] = Request("create", "X", 100)
    /\ req[2] = Request("create", "X", 50)
    /\ hpc[2] = "done"
    /\ Render(result[2]) = "Stock X already exists"
    /\ Balance("X") = U32Of(100)

\* C15: create on a name that is not in the store inserts exactly that name
\* with the balance set to the quantity supplied (0 when none is supplied)
\* and returns "Stock <name> created with balance = <quantity>"; a status
\* that follows reports that quantity.
C15_CreateInsertsWithQuantity ==
    /\ [](\A k \in Conns :
            /\ (wire[k] = << "/trans", "create", "stock", "Y" >> /\ Returned(k)
                /\ result[k].text = "created")
                  => Render(result[k]) = "Stock Y created with balance = 0"
            /\ (/\ k > 1 /\ result[k - 1].text = "created"
                /\ req[k].trans = "status" /\ req[k].stock = req[k - 1].stock
                /\ Returned(k))
                  => Render(result[k]) = "Balance for stock " \o req[k].stock
                                            \o " = " \o Dec(req[k - 1].amount))
    /\ [][\A h \in Conns :
            LET s == req[h].stock
            IN  /\ (/\ hpc[h] = "start" /\ req[h].trans = "create"
                    /\ ~Has(stockMap, s) /\ hpc'[h] # hpc[h])
                      => hpc'[h] = "c_insert" /\ stockMap' = stockMap
                /\ (hpc[h] \in {"c_insert", "c_assign"} /\ hpc'[h] # hpc[h])
                      => /\ DOMAIN stockMap' = DOMAIN stockMap \cup {s}
                         /\ \A n \in DOMAIN stockMap \ {s} :
                              stockMap'[n] = stockMap[n]
                /\ (hpc[h] = "c_assign" /\ hpc'[h] # hpc[h])
                      => /\ hpc'[h] = "release"
                         /\ stockMap'[s].name = s
                         /\ stockMap'[s].balance = req[h].amount
                         /\ Render(result'[h]) =
                              "Stock " \o s \o " created with balance = "
                                 \o Dec(req[h].amount)]_vars

\* C15 witness: create X 100 was answered "Stock X created with balance =
\* 100" and the status that followed was answered with 100.
C15_StatusAfterCreate ==
    /\ Render(result[1]) = "Stock X created with balance = 100"
    /\ req[2] = Request("status", "X", 0)
    /\ hpc[2] = "done"
    /\ Render(result[2]) = "Balance for stock X = 100"

\* C16: sell(X, q) on an existing X with balance b sets the balance to b + q
\* and returns "Stock X's balance updated"; a status that follows reports
\* b + q (create X 100, sell X 30, status: 130).
C16_SellAddsQuantity ==
    /\ [](\A k \in Conns :
            (/\ k > 2 /\ result[k - 2].text = "created"
             /\ req[k - 1].trans = "sell" /\ req[k - 1].stock = req[k - 2].stock
             /\ req[k].trans = "status" /\ req[k].stock = req[k - 2].stock
             /\ Returned(k))
               => Render(result[k]) =
                    "Balance for stock " \o req[k].stock \o " = "
                       \o Dec(U32Add(req[k - 2].amount, req[k - 1].amount)))
    /\ [][\A h \in Conns :
            LET s == req[h].stock
            IN  (/\ req[h].trans = "sell" /\ Has(stockMap, s)
                 /\ hpc[h] \in {"start", "u_at", "u_lock", "u_add", "u_notify"}
                 /\ hpc'[h] # hpc[h]) =>
                    /\ DOMAIN stockMap' = DOMAIN stockMap
                    /\ \A n \in DOMAIN stockMap \ {s} : stockMap'[n] = stockMap[n]
                    /\ stockMap'[s].balance =
                          IF hpc[h] = "u_add"
                          THEN U32Add(stockMap[s].balance, req[h].amount)
                          ELSE stockMap[s].balance
                    /\ hpc[h] # "u_notify" => ~Returned(h)'
                    /\ hpc[h] = "u_notify" =>
                          /\ hpc'[h] = "release"
                          /\ Render(result'[h]) = "Stock " \o s \o "'s balance updated"]_vars

\* C16 witness: create X 100, sell X 30 and status X were answered in turn,
\* the status with 130.
C16_StatusAfterSell ==
    /\ req[1] = Request("create", "X", 100)
    /\ req[2] = Request("sell", "X", 30)
    /\ Render(result[2]) = "Stock X's balance updated"
    /\ hpc[3] = "done"
    /\ Render(result[3]) = "Balance for stock X = 130"

\* C17: reset, given any name and quantity, empties the store and returns
\* "Stocks reset"; a status, buy or sell that follows returns "Stock not
\* found" for every name, and a create that follows succeeds as a fresh
\* create, also for a name that was in use before the reset.
C17_ResetEmptiesStore ==
    /\ [](\A k \in Conns :
            (k > 1 /\ result[k - 1].text = "Stocks reset" /\ Returned(k)) =>
                /\ req[k].trans \in {"status", "buy", "sell"}
                      => Render(result[k]) = "Stock not found"
                /\ req[k].trans = "create"
                      => /\ Render(result[k]) =
                              "Stock " \o req[k].stock \o " created with balance = "
                                 \o Dec(req[k].amount)
                         /\ accepted = k =>
                              /\ DOMAIN stockMap = {req[k].stock}
                              /\ Balance(req[k].stock) = req[k].amount)
    /\ [][\A h \in Conns :
            (hpc[h] = "start" /\ req[h].trans = "reset" /\ hpc'[h] # hpc[h]) =>
                /\ hpc'[h] = "release"
                /\ stockMap' = EmptyMap
                /\ Render(result'[h]) = "Stocks reset"]_vars

\* C17 witness: create X 100 was answered, a reset carrying a name and a
\* quantity was answered "Stocks reset", and create X 50 was then answered
\* "Stock X created with balance = 50".
C17_CreateAfterReset ==
    /\ Render(result[1]) = "Stock X created with balance = 100"
    /\ wire[2] = Line("reset", "X", "50")
    /\ Render(result[2]) = "Stocks reset"
    /\ hpc[3] = "done"
    /\ Render(result[3]) = "Stock X created with balance = 50"
    /\ Balance("X") = U32Of(50)

\* The transaction kinds that processTrans knows.
Kinds == {"reset", "create", "buy", "sell", "status"}

\* C18: a request whose transaction kind is none of reset, create, buy, sell
\* and status returns "Invalid request" and leaves the store unchanged, for
\* every name, whether or not that name is in the store.
C18_UnknownKindInvalid ==
    [][\A h \in Conns :
         (/\ hpc[h] = "start" /\ hpc'[h] # hpc[h]
          /\ req[h].trans \notin Kinds /\ req[h].trans # "") =>
             /\ hpc'[h] = "release"
             /\ Render(result'[h]) = "Invalid request"
             /\ stockMap' = stockMap]_vars

\* The request of connection h is not a reset and lacks its name (and so
\* its quantity), or its kind as well.
MissingTokens(h) == h <= accepted /\ Len(wire[h]) < 4 /\ req[h].trans # "reset"

\* C19 as stated: a request with missing tokens is parsed to empty/zero
\* fields without an error, and its outcome is always "Stock not found" or
\* "Invalid request" with the store unchanged (taken here for the requests
\* that lack at least the name; a reset needs none).
C19_MissingTokensRejected ==
    /\ [](\A h \in Conns :
            (MissingTokens(h) /\ Returned(h)) =>
                Render(result[h]) \in {"Stock not found", "Invalid request"})
    /\ [][\A h \in Conns :
            (MissingTokens(h) /\ hpc'[h] # hpc[h]) => stockMap' = stockMap]_vars

\* C19: a request with missing tokens is parsed without an error, a missing
\* kind to the empty kind, a missing name to the empty name and a missing
\* quantity to 0.  When the kind is missing the outcome is "Stock not found"
\* or "Invalid request" and the store is unchanged; a request that names its
\* kind is processed as that kind with the empty or zero fields.
C19_MissingTokensDefault ==
    /\ [](/\ ~aborted
          /\ \A h \in Conns :
               /\ Len(wire[h]) < 2 => req[h].trans = ""
               /\ Len(wire[h]) < 4 => req[h].stock = ""
               /\ Len(wire[h]) < 6 => req[h].amount = U32Of(0)
               /\ Len(wire[h]) >= 2 => req[h].trans = wire[h][2])
    /\ [][\A h \in Conns :
            (Len(wire[h]) < 2 /\ hpc[h] = "start" /\ hpc'[h] # hpc[h]) =>
                /\ hpc'[h] = "release"
                /\ Render(result'[h]) \in {"Stock not found", "Invalid request"}
                /\ stockMap' = stockMap]_vars

\* C19 witness: "/trans=create" (no name, no quantity) created the stock
\* with the empty name, and the request "/" that followed, which has no
\* kind, was answered "Invalid request".
C19_EmptyRequestAnswered ==
    /\ wire[1] = << "/trans", "create" >>
    /\ Render(result[1]) = "Stock  created with balance = 0"
    /\ wire[2] = << "/" >>
    /\ hpc[2] = "done"
    /\ Render(result[2]) = "Invalid request"
    /\ DOMAIN stockMap = {""}

\* getResponse in the client: the number in the Content-Length header of
\* response r.
ContentLength(r) ==
    LET i == CHOOSE j \in 1..Len(r.headers) : r.headers[j][1] = "Content-Length"
    IN  ParseUnsigned(r.headers[i][2])

\* C20: every result of processTrans is delivered as an "HTTP/1.1 200 OK"
\* response whose Content-Length header equals the length of the result text
\* and whose body is exactly that text, and exactly one response is written
\* on a connection: none before clientThread has sent, one afterwards.
C20_OneFramedResponse ==
    \A h \in Conns :
        /\ Len(sent[h]) = IF hpc[h] = "done" THEN 1 ELSE 0
        /\ hpc[h] = "done" =>
              LET r == sent[h][1]
              IN  /\ r.status = "HTTP/1.1 200 OK"
                  /\ ContentLength(r) = U32Of(Len(Render(result[h])))
                  /\ r.body = Render(result[h])

\* C20 witness: the status after create X 100 and sell X 30 was delivered
\* with the body "Balance for stock X = 130" and Content-Length 25.
C20_StatusDelivered ==
    /\ hpc[3] = "done"
    /\ Len(sent[3]) = 1
    /\ sent[3][1].body = "Balance for stock X = 130"
    /\ sent[3][1].headers[2] = << "Content-Length", "25" >>
    /\ sent[3][1].status = "HTTP/1.1 200 OK"

\* C21: operations on different stocks are independent.  A thread parked in
\* a buy holds no mutex, a thread only ever owns the mutex of the stock its
\* request names, and while any number of buys stay blocked on X every
\* operation on Y completes.
C21_OtherStockCompletes ==
    /\ [](\A h \in Conns :
            /\ hpc[h] = "parked" =>
                  \A n \in DOMAIN stockMap : stockMap[n].mutex # h
            /\ \A n \in DOMAIN stockMap :
                  stockMap[n].mutex = h => req[h].stock = n)
    /\ \A h \in Conns : (req[h].stock = "Y") => <>(hpc[h] = "done")

\* C21 witness: two buys are parked on X and the sell on Y was answered.
C21_SellOnYBesideBlockedBuys ==
    /\ hpc[1] = "parked" /\ req[1].stock = "X"
    /\ hpc[2] = "parked" /\ req[2].stock = "X"
    /\ req[3] = Request("sell", "Y", 5)
    /\ hpc[3] = "done"
    /\ Balance("Y") = U32Of(20)

\* C22: a sell on an existing stock always completes, also while buys are
\* parked on that stock, and so does a status, which reports the balance the
\* stock has when it is read.
C22_SellAndStatusComplete ==
    /\ \A h \in Conns :
         (req[h].trans \in {"sell", "status"}) => <>(hpc[h] = "done")
    /\ [][\A h \in Conns :
            (req[h].trans = "status" /\ ~Returned(h) /\ Returned(h)') =>
                Render(result'[h]) =
                    "Balance for stock " \o req[h].stock \o " = "
                       \o Dec(Balance(req[h].stock))]_vars

\* C22 witness: a buy of 15 is parked on X, whose balance a completed sell
\* raised to 10, and a status was answered with that balance.
C22_SoldBesideParkedBuy ==
    \E b, s, t \in Conns :
        /\ req[b] = Request("buy", "X", 15) /\ hpc[b] = "parked"
        /\ req[s].trans = "sell" /\ hpc[s] = "done"
        /\ hpc[t] = "done"
        /\ Render(result[t]) = "Balance for stock X = 10"

\* C23: a thread blocked in a buy keeps its admission slot: the count equals
\* the number of threads that have not executed their decrement, and only a
\* thread whose processTrans has returned decrements it.  A buy whose
\* quantity the balance never covers (the buys on X, which nobody sells)
\* never returns: it has no result and writes no response.
C23_BlockedBuyKeepsSlot ==
    /\ [](/\ threadCount = Cardinality({h \in Conns : InFlight(h)})
          /\ \A h \in Conns :
               req[h].stock = "X" =>
                  /\ ~Returned(h)
                  /\ result[h] = NoResult
                  /\ sent[h] = << >>)
    /\ [][threadCount' # threadCount =>
            /\ threadCount' = threadCount - 1
            /\ \E h \in Conns : hpc[h] = "release" /\ hpc'[h] = "notify"]_vars

\* C23 witness: two buys are parked on X, the status on Y was answered, and
\* the count is still 2.
C23_TwoSlotsHeldByParkedBuys ==
    /\ hpc[1] = "parked" /\ hpc[2] = "parked"
    /\ req[3] = Request("status", "Y", 0)
    /\ hpc[3] = "done"
    /\ threadCount = 2

\* How far clientThread h has come: 0 not started, 1 in processTrans (or
\* ended by an exception or a failed assert), 2 processTrans has returned,
\* 3 count decremented, 4 accept loop notified, 5 response written.
Stage(h) ==
    CASE hpc[h] = "idle" -> 0
      [] hpc[h] = "release" -> 2
      [] hpc[h] = "notify" -> 3
      [] hpc[h] = "send" -> 4
      [] hpc[h] = "done" -> 5
      [] OTHER -> 1

\* C24: in every clientThread the steps happen in this order, each once: the
\* request is read and parsed, processTrans runs to its return, the slot is
\* released (decrement, then notify), and the response is written.  The
\* count is decremented and a response is written by these steps only.
C24_HandlerStepOrder ==
    /\ [](\A h \in Conns : Stage(h) >= 1 => req[h] = ParseRequest(wire[h]))
    /\ [][/\ \A h \in Conns :
               /\ Stage(h)' \in {Stage(h), Stage(h) + 1}
               /\ (Stage(h) = 1 /\ Stage(h)' = 2) => result'[h] # NoResult
               /\ Stage(h) >= 2 => result'[h] = result[h]
               /\ (Stage(h) = 2 /\ Stage(h)' = 3) => threadCount' = threadCount - 1
               /\ sent'[h] = IF Stage(h) = 4 /\ Stage(h)' = 5
                             THEN Append(sent[h], SendResponse(Render(result[h])))
                             ELSE sent[h]
          /\ threadCount' < threadCount =>
               \E h \in Conns : Stage(h) = 2 /\ Stage(h)' = 3]_vars

\* C24 witness: the only thread started so far has released its slot and is
\* about to write its response.
C24_ReleasedBeforeResponse ==
    /\ accepted = 1
    /\ hpc[1] = "send"
    /\ threadCount = 0
    /\ result[1] # NoResult
    /\ sent[1] = << >>

\* The words at positions 2, 4 and 6 of a request (empty when missing).
Values(w) == << Word(w, 2), Word(w, 4), Word(w, 6) >>

C26_LookupNeverMisses ==
    \A h \in Conns :
        /\ hpc[h] \in {"u_at", "s_at", "s_read"} => Has(stockMap, req[h].stock)
        /\ hpc[h] # "threw"

\* The balances of sm::stockMap by name.
Balances == [n \in DOMAIN stockMap |-> stockMap[n].balance]

\* The server and the run r of another implementation agree on the first k
\* requests: the same result text, the same store, blocked at the same buy.
Agree(k, r) ==
    /\ Returned(k) => (~r.blocked /\ Render(r.msg) = Render(result[k]))
    /\ hpc[k] = "parked" => r.blocked
    /\ (accepted = k /\ Returned(k)) => r.map = Balances

\* C27: run on the same sequence of transactions, one after the other, the
\* transaction processors of raodm_homework8, zarembmj_homework8 and
\* zarembmj_homework9 return the same text for every transaction and reach
\* the same store.
C27_ThreeImplementationsAgree ==
    \A k \in 1..accepted : Agree(k, raodm_Run(k)) /\ Agree(k, hw8_Run(k))

\* C28: an admitted transaction that is not a buy (create, sell, status,
\* reset, a kind that is none of the five) runs to its end: its thread is
\* never ended by an exception before it has returned a result, released its
\* slot and written its response.
C28_NonBuyTerminates ==
    \A h \in Conns :
        (req[h].trans # "buy" /\ hpc[h] # "idle") => hpc[h] # "threw"

\* Thread h runs a buy and holds its stock's mutex between taking it and
\* the subtraction.
BuyHolds(h) == req[h].trans = "buy" /\ hpc[h] \in {"u_wait", "u_assert", "u_sub"}

\* Thread h runs a buy that the balance of its stock covers.
Covered(h) == U32Geq(Balance(req[h].stock), req[h].amount)

\* C29: a buy of q on X that holds X's mutex while balance(X) >= q does not
\* park: it goes on to the subtraction, which takes q from the balance and
\* returns "Stock X's balance updated"; a thread parks only when its
\* quantity exceeds the balance.  A buy of 0 never parks and leaves the
\* balance as it was.
C29_CoveredBuyProceeds ==
    /\ [](\A h \in Conns :
            /\ BuyHolds(h) => stockMap[req[h].stock].mutex = h
            /\ (BuyHolds(h) /\ hpc[h] # "u_wait") => Covered(h)
            /\ (req[h].trans = "buy" /\ req[h].amount = U32Of(0))
                  => hpc[h] \notin {"parked", "woken", "assert_failed"})
    /\ [][\A h \in Conns :
            (BuyHolds(h) /\ Covered(h) /\ hpc'[h] # hpc[h]) =>
               /\ hpc[h] = "u_wait" => (hpc'[h] = "u_assert" /\ Balance("X")' = Balance("X"))
               /\ hpc[h] = "u_assert" => (hpc'[h] = "u_sub" /\ Balance("X")' = Balance("X"))
               /\ hpc[h] = "u_sub" =>
                     /\ Returned(h)'
                     /\ Render(result'[h]) = "Stock X's balance updated"
                     /\ Balance("X")' = U32Sub(Balance("X"), req[h].amount)
                     /\ U32Add(Balance("X")', req[h].amount) = Balance("X")
                     /\ req[h].amount = U32Of(0) => Balance("X")' = Balance("X")]_vars

\* C29 witness: from balance 10 the buy of 10 and the buy of 0 were both
\* served and left balance 0, while the buy of 15 is parked.
C29_BuysOfTenAndZeroServed ==
    /\ Balance("X") = U32Of(0)
    /\ \E a, b, c \in Conns :
         /\ req[a] = Request("buy", "X", 10) /\ hpc[a] = "done"
         /\ req[b] = Request("buy", "X", 0) /\ hpc[b] = "done"
         /\ result[b].text = "balance updated"
         /\ req[c] = Request("buy", "X", 15) /\ hpc[c] = "parked"

\* Thread h has executed sm::threadCount--.
Decremented(h) == hpc[h] \in {"notify", "send", "done"}

\* C30: sm::threadCount stays within 0..maxThreads and equals the number of
\* clientThreads that were admitted and have not executed their decrement;
\* it goes up by one only in runServer's admission, which starts one thread,
\* and down by one only in a clientThread's release step, which each thread
\* takes at most once.
C30_CounterTracksHandlers ==
    /\ [](/\ threadCount \in 0..maxThreads
          /\ threadCount = Cardinality({h \in Conns : hpc[h] # "idle" /\ ~Decremented(h)}))
    /\ [][/\ threadCount' \in {threadCount - 1, threadCount, threadCount + 1}
          /\ threadCount' = threadCount + 1 =>
                /\ accPc = "incr"
                /\ hpc[accepted] = "idle" /\ hpc'[accepted] = "start"
                /\ \A h \in Conns \ {accepted} : hpc'[h] = hpc[h]
          /\ threadCount' = threadCount - 1 =>
                \E h \in Conns :
                    /\ hpc[h] = "release" /\ hpc'[h] = "notify"
                    /\ \A g \in Conns \ {h} : hpc'[g] = hpc[g]
                    /\ accPc' = accPc
          /\ \A h \in Conns :
                /\ Decremented(h) => Decremented(h)'
                /\ (hpc[h] = "idle" /\ hpc'[h] # "idle") => threadCount' = threadCount + 1
                /\ (~Decremented(h) /\ Decremented(h)') => threadCount' = threadCount - 1]_vars

\* C30 witness: with ceiling 2 three threads were admitted; one has finished,
\* one has decremented and not yet answered, one is still counted.
C30_OneOfThreeStillCounted ==
    /\ maxThreads = 2
    /\ threadCount = 1
    /\ \E a, b, c \in Conns :
         /\ hpc[a] = "done"
         /\ hpc[b] = "notify"
         /\ hpc[c] \in {"start", "u_lock", "parked"}

\* runServer is between server.accept() and the start of the thread for the
\* connection it accepted last.
Admitting == accPc \in {"check", "block", "parked", "incr"}

\* C31: connections are admitted in the order in which they were accepted:
\* every connection but the last accepted one has its thread, the last one
\* is the only one that can be without, a thread is started only for the
\* connection accepted last, and the loop accepts the next connection only
\* after it has started that thread, never while it waits for a slot.
C31_AdmittedInAcceptOrder ==
    /\ [](/\ \A h \in Conns : (h < accepted => hpc[h] # "idle")
                           /\ (h > accepted => hpc[h] = "idle")
          /\ Cardinality({h \in 1..accepted : hpc[h] = "idle"}) <= 1
          /\ Admitting <=> (accepted > 0 /\ hpc[accepted] = "idle"))
    /\ [][/\ accepted' # accepted =>
                /\ accPc = "accept" /\ accepted' = accepted + 1
                /\ \A h \in 1..accepted : hpc[h] # "idle"
          /\ \A h \in Conns :
                (hpc[h] = "idle" /\ hpc'[h] # "idle") =>
                    (h = accepted /\ accPc = "incr" /\ accepted' = accepted)]_vars

\* C31 witness: with ceiling 1 the second connection's buy is parked, the
\* third connection was accepted and the loop waits for a slot with it.
C31_ThirdWaitsBehindParkedBuy ==
    /\ maxThreads = 1
    /\ accepted = 3
    /\ hpc[1] = "done" /\ hpc[2] = "parked" /\ hpc[3] = "idle"
    /\ accPc = "parked"

\* The result texts of processTrans that report an error.
ErrorTexts == {"Stock not found", "already exists", "Invalid request"}

\* C32: a step of a buy, sell, status or create on name X leaves the
\* balance of every other stock as it was; a buy, sell, status or a create
\* of a name that exists leaves the set of names as it was; a status leaves
\* every balance as it was; a transaction that returns "Stock not found",
\* "already exists" or "Invalid request" returns in its first step and
\* leaves the store as it was; a name is added only by a create, and it is
\* the create's name; names are removed only by a reset.
C32_Frame ==
    [][\A h \in Conns :
         hpc'[h] # hpc[h] =>
            LET names == DOMAIN stockMap
                r == req[h]
            IN  /\ r.trans # "reset" =>
                      /\ names \subseteq DOMAIN stockMap'
                      /\ \A n \in names \ {r.stock} : Balances'[n] = Balances[n]
                /\ (r.trans \in {"buy", "sell", "status"}
                      \/ (r.trans = "create" /\ hpc[h] = "start" /\ r.stock \in names))
                      => DOMAIN stockMap' = names
                /\ r.trans = "status" => Balances' = Balances
                /\ (~Returned(h) /\ Returned(h)' /\ result'[h].text \in ErrorTexts)
                      => (hpc[h] = "start" /\ stockMap' = stockMap)
                /\ DOMAIN stockMap' # names =>
                      \/ r.trans = "create" /\ DOMAIN stockMap' = names \cup {r.stock}
                      \/ r.trans = "reset" /\ DOMAIN stockMap' = {}]_vars

\* C32 witness: X was created with 100 and Y with 0; the sale of 30 on X
\* was answered and Y still has 0.
C32_SaleOnXLeavesY ==
    /\ req[1] = Request("create", "X", 100)
    /\ req[2] = Request("create", "Y", 0)
    /\ req[3] = Request("sell", "X", 30)
    /\ hpc[3] = "done"
    /\ Balances = [n \in {"X", "Y"} |-> IF n = "X" THEN U32Of(130) ELSE U32Of(0)]

\* ------------------------------------------------------------------------
\* Trading at the top of unsigned int: X was created with balance 2^32 - 10
\* or 2^32 - 3, and one clientThread per connection has started with a sell
\* of 5, a buy of 10 or a status.
\* ------------------------------------------------------------------------

WrapBalances == { << Limb - 1, Limb - 10 >>, << Limb - 1, Limb - 3 >> }

WrapWire ==
    { Line("sell", "X", "5"), Line("buy", "X", "10"),
      << "/trans", "status", "stock", "X" >> }

InitWrap ==
    /\ maxThreads = MaxConn
    /\ threadCount = MaxConn
    /\ accPc = "accept"
    /\ accepted = MaxConn
    /\ hpc = [h \in Conns |-> "start"]
    /\ wire \in [Conns -> WrapWire]
    /\ req = [h \in Conns |-> ParseRequest(wire[h])]
    /\ result = [h \in Conns |-> NoResult]
    /\ dangling = [h \in Conns |-> FALSE]
    /\ \E b \in WrapBalances :
         stockMap = [n \in {"X"} |->
                       [name |-> "X", balance |-> b, mutex |-> 0, condVar |-> {}]]
    /\ sent = [h \in Conns |-> << >>]
    /\ aborted = FALSE
    /\ ShellOff /\ CountOff

SpecWrap == InitWrap /\ [][NextTrade]_vars

\* 2^32 - 1 - b.
Complement(b) == << Limb - 1 - b[1], Limb - 1 - b[2] >>

\* b + q < 2^32.
SumFits(b, q) == U32Geq(Complement(b), q)

\* C33: a sell of q on balance b leaves the balance congruent to b + q
\* modulo 2^32; when b + q < 2^32 the new balance is not below b and
\* exceeds it by exactly q; otherwise it is q - (2^32 - b), which is below
\* b.  A status reports the balance it reads.
C33_SellWrapsModulo ==
    [][\A h \in Conns :
         /\ (hpc[h] = "u_add" /\ hpc'[h] # hpc[h]) =>
               LET b == Balance("X")
                   q == req[h].amount
                   n == Balance("X")'
               IN  /\ U32Sub(n, q) = b
                   /\ SumFits(b, q) => (U32Geq(n, b) /\ U32Sub(n, b) = q)
                   /\ ~SumFits(b, q) =>
                         /\ ~U32Geq(n, b)
                         /\ n[1] = 0
                         /\ n[2] = q[2] - (Limb - b[2])
                   /\ U32Geq(n, b) <=> SumFits(b, q)
         /\ (hpc[h] = "s_read" /\ hpc'[h] # hpc[h]) =>
               /\ result'[h].num = Balance("X")
               /\ Render(result'[h]) = "Balance for stock X = " \o Dec(Balance("X"))]_vars

\* C33 witness: from balance 2^32 - 3 a sell of 5 was answered and the
\* status after it reports balance 2.
C33_WrappedToTwo ==
    \E a, b \in Conns :
        /\ req[a] = Request("sell", "X", 5) /\ hpc[a] = "done"
        /\ req[b].trans = "status" /\ hpc[b] = "done"
        /\ Render(result[b]) = "Balance for stock X = 2"
        /\ Balance("X") = U32Of(2)

\* ------------------------------------------------------------------------
\* The custom shell (zarembmj_hw5.cpp).  A line is kept as the words that
\* split() yields: the empty line has none, a comment line begins with the
\* word "#".  ChildProcess (forkNexec, wait) comes from ChildProcess.h: a
\* started child runs on its own and exits with some code at some time, and
\* wait() returns that code once the child has exited.
\* ------------------------------------------------------------------------

ExitLine == << "exit" >>

\* The scripts on disk.
Files ==
    [n \in {"one", "two", "outer", "inner"} |->
       CASE n = "one" -> << << "ls" >>, << >>, << "#", "note" >>, << "pwd" >> >>
         [] n = "two" -> << << "ls" >>, << "pwd" >>, ExitLine, << "date" >> >>
         [] n = "outer" -> << << "ls" >>, << "SERIAL", "inner" >>, << "pwd" >> >>
         [] n = "inner" -> << << "date" >> >>]

\* std::ifstream script(input): the lines of the file; a file that cannot
\* be opened yields none.
FileLines(n) == IF n \in DOMAIN Files THEN Files[n] ELSE << >>

\* What the user types at the console.
Inputs ==
    { << << "SERIAL", "one" >> >>,
      << << "PARALLEL", "one" >> >>,
      << << "SERIAL", "two" >>, << "ls" >> >>,
      << << "PARALLEL", "two" >>, << "ls" >> >>,
      << << "PARALLEL", "outer" >> >>,
      << << "PARALLEL", "none" >>, << "ls" >>, ExitLine, << "pwd" >> >> }

\* The exit codes a child may end with.
ExitCodes == {0, 1}

\* A call of processCmds(is, prompt, parallel) at its first statement.
Frame(lines, prompt, parallel) ==
    [lines |-> lines, prompt |-> prompt, parallel |-> parallel,
     childList |-> << >>, pc |-> "read", cur |-> 0]

\* The innermost call of processCmds.
Top == stack[Len(stack)]

SetTop(f) == [stack EXCEPT ![Len(stack)] = f]

\* std::cout << prompt in the loop condition; the prompt of a script is
\* empty.
Prompted(f) ==
    IF f.prompt = "" THEN console ELSE Append(console, << f.prompt >>)

\* The stock server is not in use: no connection, an empty store.
ServerOff ==
    /\ maxThreads = 1
    /\ threadCount = 0
    /\ accPc = "accept"
    /\ accepted = 0
    /\ hpc = [h \in Conns |-> "idle"]
    /\ wire = [h \in Conns |-> << >>]
    /\ req = [h \in Conns |-> NoRequest]
    /\ result = [h \in Conns |-> NoResult]
    /\ dangling = [h \in Conns |-> FALSE]
    /\ stockMap = EmptyMap
    /\ sent = [h \in Conns |-> << >>]
    /\ aborted = FALSE

\* main: processCmds(std::cin).
InitShell ==
    /\ ServerOff
    /\ \E in \in Inputs : stack = << Frame(in, "> ", FALSE) >>
    /\ child = << >>
    /\ console = << >>
    /\ CountOff

\* The loop condition fails: getline is at the end of the input or has read
\* "exit".  The call goes on to wait for the children of its childList.
ShellEnd ==
    /\ stack # << >>
    /\ Top.pc = "read"
    /\ IF Top.lines = << >> THEN TRUE ELSE Head(Top.lines) = ExitLine
    /\ console' = Prompted(Top)
    /\ stack' = SetTop([Top EXCEPT !.pc = "drain", !.cur = 1])
    /\ UNCHANGED << child, serverVars, countVars >>

\* An empty line or a comment: continue.
ShellSkip ==
    /\ stack # << >>
    /\ Top.pc = "read"
    /\ Top.lines # << >>
    /\ LET line == Head(Top.lines)
       IN  IF line = << >> THEN TRUE ELSE line[1] = "#"
    /\ console' = Prompted(Top)
    /\ stack' = SetTop([Top EXCEPT !.lines = Tail(@)])
    /\ UNCHANGED << child, serverVars, countVars >>

\* SERIAL file or PARALLEL file: processScript opens the file and calls
\* processCmds on it with an empty prompt.
ShellScript ==
    /\ stack # << >>
    /\ Top.pc = "read"
    /\ Top.lines # << >>
    /\ LET line == Head(Top.lines)
       IN  /\ line # << >>
           /\ line[1] \in {"SERIAL", "PARALLEL"}
           /\ stack' = Append(SetTop([Top EXCEPT !.lines = Tail(@)]),
                              Frame(FileLines(line[2]), "", line[1] = "PARALLEL"))
    /\ console' = Prompted(Top)
    /\ UNCHANGED << child, serverVars, countVars >>

\* The line of output for a child's exit code.
ExitCodeLine(code) == << "Exit code: ", code >>

\* ChildProcess::forkNexec: a new child process that runs the command.
ForkNexec(argList, parallel) ==
    [cmd |-> argList, parallel |-> parallel, state |-> "running", code |-> 0]

\* Faulty variant of the command step below: the child is waited for in
\* parallel mode as well.
ShellRun_AlwaysWaits ==
    /\ stack # << >>
    /\ Top.pc = "read"
    /\ Top.lines # << >>
    /\ LET line == Head(Top.lines)
           pid == Len(child) + 1
       IN  /\ line # << >> /\ line # ExitLine
           /\ line[1] \notin {"#", "SERIAL", "PARALLEL"}
           /\ console' = Append(Prompted(Top), << "Running:" >> \o line)
           /\ child' = Append(child, ForkNexec(line, Top.parallel))
           /\ stack' = SetTop([Top EXCEPT !.lines = Tail(@), !.pc = "wait",
                                          !.cur = pid])
    /\ UNCHANGED << serverVars, countVars >>

\* Any other line: runCmds prints the command and starts a child for it.
\* In serial mode the call goes on to wait for the child; in parallel mode
\* the child is added to childList.
ShellRun ==
    /\ stack # << >>
    /\ Top.pc = "read"
    /\ Top.lines # << >>
    /\ LET line == Head(Top.lines)
           pid == Len(child) + 1
       IN  /\ line # << >> /\ line # ExitLine
           /\ line[1] \notin {"#", "SERIAL", "PARALLEL"}
           /\ console' = Append(Prompted(Top), << "Running:" >> \o line)
           /\ child' = Append(child, ForkNexec(line, Top.parallel))
           /\ stack' = SetTop(IF Top.parallel
                              THEN [Top EXCEPT !.lines = Tail(@),
                                               !.childList = Append(@, pid)]
                              ELSE [Top EXCEPT !.lines = Tail(@), !.pc = "wait",
                                               !.cur = pid])
    /\ UNCHANGED << serverVars, countVars >>

\* Serial mode: std::cout << "Exit code: " << child.wait(); wait() returns
\* when the child has exited.
ShellWait ==
    /\ stack # << >>
    /\ Top.pc = "wait"
    /\ child[Top.cur].state = "exited"
    /\ console' = Append(console, ExitCodeLine(child[Top.cur].code))
    /\ child' = [child EXCEPT ![Top.cur].state = "reaped"]
    /\ stack' = SetTop([Top EXCEPT !.pc = "read", !.cur = 0])
    /\ UNCHANGED << serverVars, countVars >>

\* The loop over childList after the commands: the next child of the list
\* is waited for and its exit code is printed.
ShellDrain ==
    /\ stack # << >>
    /\ Top.pc = "drain"
    /\ Top.cur <= Len(Top.childList)
    /\ LET c == Top.childList[Top.cur]
       IN  /\ child[c].state = "exited"
           /\ console' = Append(console, ExitCodeLine(child[c].code))
           /\ child' = [child EXCEPT ![c].state = "reaped"]
    /\ stack' = SetTop([Top EXCEPT !.cur = @ + 1])
    /\ UNCHANGED << serverVars, countVars >>

\* processCmds returns to processScript and its caller, or main returns.
ShellReturn ==
    /\ stack # << >>
    /\ Top.pc = "drain"
    /\ Top.cur > Len(Top.childList)
    /\ stack' = SubSeq(stack, 1, Len(stack) - 1)
    /\ UNCHANGED << child, console, serverVars, countVars >>

\* A child process exits with some code.
ChildExit(c) ==
    /\ child[c].state = "running"
    /\ \E code \in ExitCodes :
         child' = [child EXCEPT ![c].state = "exited", ![c].code = code]
    /\ UNCHANGED << stack, console, serverVars, countVars >>

NextShell ==
    \/ ShellEnd \/ ShellSkip \/ ShellScript \/ ShellRun
    \/ ShellWait \/ ShellDrain \/ ShellReturn
    \/ \E c \in 1..Len(child) : ChildExit(c)

SpecShell == InitShell /\ [][NextShell]_vars

\* The children started for commands run in serial mode.
SerialChildren == {c \in 1..Len(child) : ~child[c].parallel}

\* Some call of processCmds in parallel mode has not yet read all its lines
\* up to the end or "exit".
ParallelReading == \E i \in 1..Len(stack) : stack[i].parallel /\ stack[i].pc = "read"

\* C34 as stated: of the commands run in serial mode at most one has not
\* had its exit code printed, and it is the one being waited for; while a
\* script run in parallel mode still has lines to read, no child is waited
\* for.
C34_ParallelStartsAllBeforeAnyWait ==
    /\ \A c \in SerialChildren :
          child[c].state # "reaped" => (Top.pc = "wait" /\ Top.cur = c)
    /\ ParallelReading => Top.pc = "read"

\* The lines of the console that begin with the word w.
ConsoleLines(w) == {i \in 1..Len(console) : console[i][1] = w}

\* C34, amended: commands run in serial mode run one after the other: at
\* most one of them has not had its exit code printed, the one being waited
\* for, and the next is started after that.  A script run in parallel mode
\* waits for none of the children it started while it still reads lines; it
\* stops reading only at the end of the input or at "exit", and then waits
\* for its children in launch order.  Each wait prints the exit code of the
\* child waited for, after that child has exited, and when the shell ends
\* every started command has had one exit code printed.
C34_SerialAndParallelOrder ==
    /\ [](/\ \A c \in SerialChildren :
                child[c].state # "reaped" => (Top.pc = "wait" /\ Top.cur = c)
          /\ \A i \in 1..Len(stack) :
                LET f == stack[i]
                    n == Len(f.childList)
                IN  /\ ~f.parallel => n = 0
                    /\ \A j, k \in 1..n : j < k => f.childList[j] < f.childList[k]
                    /\ \A j \in 1..n :
                          /\ child[f.childList[j]].parallel
                          /\ child[f.childList[j]].state = "reaped"
                                <=> (f.pc = "drain" /\ j < f.cur)
          /\ \A c \in 1..Len(child) :
                (child[c].parallel /\ child[c].state # "reaped") =>
                    \E i \in 1..Len(stack) :
                        \E j \in 1..Len(stack[i].childList) : stack[i].childList[j] = c
          /\ stack = << >> =>
                /\ \A c \in 1..Len(child) : child[c].state = "reaped"
                /\ Cardinality(ConsoleLines("Exit code: ")) = Len(child)
                /\ Cardinality(ConsoleLines("Running:")) = Len(child))
    /\ [][/\ \A c \in 1..Len(child) :
                (child[c].state # "reaped" /\ child'[c].state = "reaped") =>
                    /\ child[c].state = "exited"
                    /\ console' = Append(console, ExitCodeLine(child[c].code))
                    /\ IF child[c].parallel
                       THEN /\ Top.parallel /\ Top.pc = "drain"
                            /\ Top.childList[Top.cur] = c
                       ELSE ~Top.parallel /\ Top.pc = "wait" /\ Top.cur = c
          /\ Len(child') # Len(child) =>
                /\ Len(child') = Len(child) + 1
                /\ Top.pc = "read"
                /\ child'[Len(child')].parallel = Top.parallel
                /\ ~Top.parallel =>
                      \A c \in SerialChildren : child[c].state = "reaped"
          /\ (stack # << >> /\ Len(stack') = Len(stack)
                /\ Top.pc = "read" /\ stack'[Len(stack)].pc = "drain") =>
                    IF Top.lines = << >> THEN TRUE ELSE Head(Top.lines) = ExitLine]_vars

\* C34 witness: a script run in parallel mode has reached its "exit" line
\* with both commands started; the second child has exited, the first one
\* has not, and the shell waits for the first.
C34_WaitsInLaunchOrderAtExit ==
    /\ stack # << >>
    /\ Top.parallel /\ Top.pc = "drain" /\ Top.cur = 1
    /\ Top.lines # << >>
    /\ Top.childList = << 1, 2 >>
    /\ child[1].state = "running" /\ child[2].state = "exited"

\* ------------------------------------------------------------------------
\* The word counter (zarembmj_homework7.cpp): main starts one thread per
\* file named on the command line, joins them all and prints the results.
\* ------------------------------------------------------------------------

\* The files on the server, as the words of their lines after changePunct.
Pages ==
    [f \in {"a.txt", "b.txt"} |->
       IF f = "a.txt" THEN << "the", "qwzx", "cat" >> ELSE << "dog" >>]

\* english.txt.
Dictionary == {"the", "cat", "dog"}

\* wordCount: the number of words and of dictionary words of the stream.
WordCount(words) ==
    ": words=" \o ToString(Len(words)) \o ", English words="
       \o ToString(Cardinality({k \in 1..Len(words) : words[k] \in Dictionary}))

\* getCount: the file name followed by its counts.
GetCount(file) == file \o WordCount(Pages[file])

\* The command lines: the program name and up to MaxArgs file names.
CommandLines ==
    UNION {[0..n -> {"a.txt", "b.txt"}] : n \in 0..MaxArgs}

\* argc.
Argc == Cardinality(DOMAIN argv)

\* main up to the vectors' construction.
InitCount ==
    /\ ServerOff
    /\ ShellOff
    /\ \E a \in CommandLines : argv = [a EXCEPT ![0] = "./count"]
    /\ stats = [i \in DOMAIN argv |-> ""]
    /\ thrList = << >>
    /\ mainPc = [at |-> "spawn", i |-> 1]
    /\ cout = << >>

\* thrList.push_back(std::thread([&, i]{ ... })): the thread takes its own
\* copy of i.
CountSpawn ==
    /\ mainPc.at = "spawn"
    /\ mainPc.i < Argc
    /\ thrList' = Append(thrList, [i |-> mainPc.i, pc |-> "start", count |-> ""])
    /\ mainPc' = [mainPc EXCEPT !.i = @ + 1]
    /\ UNCHANGED << argv, stats, cout, serverVars, shellVars >>

\* The first loop ends; main goes on to join the threads.
CountSpawned ==
    /\ mainPc.at = "spawn"
    /\ mainPc.i >= Argc
    /\ mainPc' = [at |-> "join", i |-> 1]
    /\ UNCHANGED << argv, stats, thrList, cout, serverVars, shellVars >>

\* Thread k: getCount(argv[i]) downloads the file and counts its words.
ThrGetCount(k) ==
    /\ thrList[k].pc = "start"
    /\ thrList' = [thrList EXCEPT ![k].pc = "store",
                                  ![k].count = GetCount(argv[thrList[k].i])]
    /\ UNCHANGED << argv, stats, mainPc, cout, serverVars, shellVars >>

\* Faulty variant of the store below: the result goes to the first slot
\* that is still empty.
ThrStore_FirstFreeSlot(k) ==
    /\ thrList[k].pc = "store"
    /\ LET free == {i \in DOMAIN stats \ {0} : stats[i] = ""}
           slot == CHOOSE i \in free : \A j \in free : i <= j
       IN  stats' = [stats EXCEPT ![slot] = thrList[k].count]
    /\ thrList' = [thrList EXCEPT ![k].pc = "finished"]
    /\ UNCHANGED << argv, mainPc, cout, serverVars, shellVars >>

\* Thread k: stats[i] = ...; and the thread ends.
ThrStore(k) ==
    /\ thrList[k].pc = "store"
    /\ stats' = [stats EXCEPT ![thrList[k].i] = thrList[k].count]
    /\ thrList' = [thrList EXCEPT ![k].pc = "finished"]
    /\ UNCHANGED << argv, mainPc, cout, serverVars, shellVars >>

\* thr.join() returns when the thread has ended.
CountJoin ==
    /\ mainPc.at = "join"
    /\ mainPc.i <= Len(thrList)
    /\ thrList[mainPc.i].pc = "finished"
    /\ thrList' = [thrList EXCEPT ![mainPc.i].pc = "joined"]
    /\ mainPc' = [mainPc EXCEPT !.i = @ + 1]
    /\ UNCHANGED << argv, stats, cout, serverVars, shellVars >>

\* The second loop ends; main goes on to print.
CountJoined ==
    /\ mainPc.at = "join"
    /\ mainPc.i > Len(thrList)
    /\ mainPc' = [at |-> "print", i |-> 1]
    /\ UNCHANGED << argv, stats, thrList, cout, serverVars, shellVars >>

\* std::cout << stats[i] << '\n';
CountPrint ==
    /\ mainPc.at = "print"
    /\ mainPc.i < Argc
    /\ cout' = Append(cout, stats[mainPc.i])
    /\ mainPc' = [mainPc EXCEPT !.i = @ + 1]
    /\ UNCHANGED << argv, stats, thrList, serverVars, shellVars >>

\* return 0;
CountReturn ==
    /\ mainPc.at = "print"
    /\ mainPc.i >= Argc
    /\ mainPc' = [at |-> "done", i |-> 0]
    /\ UNCHANGED << argv, stats, thrList, cout, serverVars, shellVars >>

CountThread(k) == ThrGetCount(k) \/ ThrStore(k)

NextCount ==
    \/ CountSpawn \/ CountSpawned \/ CountJoin \/ CountJoined
    \/ CountPrint \/ CountReturn
    \/ \E k \in 1..Len(thrList) : CountThread(k)

SpecCount == InitCount /\ [][NextCount]_vars

\* C35: thread i of the word counter writes slot stats[i] and no other, and
\* nothing else writes stats; while main prints, every thread has been
\* joined and the slots no longer change; the lines printed are the results
\* of the files in command-line order.
C35_OwnSlotJoinThenPrint ==
    /\ [](/\ \A k \in 1..Len(thrList) : thrList[k].i = k
          /\ mainPc.at \in {"print", "done"} =>
                /\ Len(thrList) = Argc - 1
                /\ \A k \in 1..Len(thrList) : thrList[k].pc = "joined"
                /\ \A i \in 1..(Argc - 1) : stats[i] = GetCount(argv[i])
          /\ \A n \in 1..Len(cout) : cout[n] = GetCount(argv[n])
          /\ mainPc.at = "done" => Len(cout) = Argc - 1
          /\ stats[0] = "")
    /\ [][/\ \A i \in DOMAIN stats :
                stats'[i] # stats[i] =>
                    /\ i \in 1..Len(thrList)
                    /\ thrList[i].pc = "store" /\ thrList'[i].pc = "finished"
                    /\ \A j \in DOMAIN stats \ {i} : stats'[j] = stats[j]
                    /\ mainPc.at \in {"spawn", "join"} /\ mainPc' = mainPc
          /\ cout' # cout =>
                (mainPc.at = "print" /\ cout' = Append(cout, stats[mainPc.i])
                   /\ stats' = stats)]_vars

\* C35 witness: the thread of the second file has stored its result while
\* the thread of the first file has not, and main waits to join the first.
C35_SecondFinishedFirst ==
    /\ Argc = 3
    /\ argv[1] = "a.txt" /\ argv[2] = "b.txt"
    /\ mainPc = [at |-> "join", i |-> 1]
    /\ thrList[1].pc = "start" /\ thrList[2].pc = "finished"
    /\ stats[1] = "" /\ stats[2] = "b.txt: words=1, English words=1"

====
